---- MODULE Spec2Model ----
(***************************************************************************)
(* State-machine model of the caching translation pipeline of the YouTube  *)
(* subtitle proxy: the GET /api/subtitle handler (src/http/routes.ts), the *)
(* two-layer cache and the caption_jobs table (src/services/cache.ts,      *)
(* src/db/schema.sql), and the in-process translation queue                *)
(* (src/queue/queue.ts).                                                   *)
(*                                                                         *)
(* Node.js runs one callback at a time, so an action is one macrotask with *)
(* the microtasks it triggers: code between two real suspension points     *)
(* (the upstream fetch, the LLM calls inside translateToBilingual, the     *)
(* 5-second timer) is atomic.                                              *)
(***************************************************************************)
EXTENDS Integers, Sequences, FiniteSets, TLC

\* ------------------------------------------------------------------------
\* Bounds of the model
\* ------------------------------------------------------------------------

\* number of client requests issued during one behaviour
MaxReqs == 2

ReqIds == 1..MaxReqs

\* ------------------------------------------------------------------------
\* Configuration (src/config/env.ts)
\* ------------------------------------------------------------------------

\* Time is counted in seconds (Date.now() / 1000).
MsPerSecond == 1000

\* CACHE_TTL_HOURS default
CacheTtlHours == 720
\* RETRY_BASE_MS default
RetryBaseMs == 5000
\* MAX_RETRIES default
DefaultMaxRetries == 3
\* QUEUE_CONCURRENCY default
DefaultConcurrency == 2

\* the configuration built by loadEnv from the defaults
DefaultConfig ==
  [concurrency |-> DefaultConcurrency,
   maxRetries  |-> DefaultMaxRetries,
   retryBaseMs |-> RetryBaseMs,
   ttlHours    |-> CacheTtlHours]

\* configurations an operator can set through the environment: the defaults,
\* a single worker slot, and retries disabled
Configs ==
  { DefaultConfig,
    [DefaultConfig EXCEPT !.concurrency = 1],
    [DefaultConfig EXCEPT !.maxRetries = 0] }

\* ------------------------------------------------------------------------
\* Values
\* ------------------------------------------------------------------------

\* SQL NULL / JS null in a text or object column
Null == [null |-> TRUE]
\* SQL NULL in an integer column
NullInt == -1

\* upstream subtitle documents, as the character codes of JSON.stringify of
\* the parsed timedtext ("c1", "c2")
Contents == { <<99, 49>>, <<99, 50>> }

\* ways the upstream fetch fails in fetchYouTubeTimedText
FetchFailures == { "http_error", "timeout", "bad_json" }

TargetLangs == { "zh-CN", "ja" }
Formats == { "json3", "srv3", "vtt" }

\* video ids are held as their character codes, so that the pattern of the
\* handler can be applied to them: "dQw4w9WgXcQ"
VideoId == <<100, 81, 119, 52, 119, 57, 87, 103, 88, 99, 81>>

\* ids the handler must refuse: absent, one character short ("dQw4w9WgXc"),
\* one character long ("dQw4w9WgXcQQ"), and 11 characters with one outside
\* the class ("dQw4w9Wg!cQ")
BadVideoIds ==
  { <<>>,
    SubSeq(VideoId, 1, 10),
    Append(VideoId, 81),
    [VideoId EXCEPT ![9] = 33] }

\* query strings clients send: v, lang, tlang, kind, fmt ("" = absent)
Queries ==
  [v : {VideoId}, lang : {"en"}, tlang : {"zh-CN"}, kind : {""},
   fmt : Formats]
  \cup [v : {VideoId}, lang : {"en"}, tlang : TargetLangs \ {"zh-CN"},
        kind : {""}, fmt : {"json3"}]
  \cup [v : {VideoId}, lang : {"zh-Hant-TW", "", "en-US-x-abc"},
        tlang : {""}, kind : {""}, fmt : {""}]
  \cup [v : BadVideoIds, lang : {"en"}, tlang : {""}, kind : {""},
        fmt : {""}]
  \cup [v : {<<>>}, lang : {""}, tlang : {""}, kind : {""}, fmt : {""}]

Or(s, dflt) == IF s = "" THEN dflt ELSE s

\* params object built from the query
ParseQuery(q) ==
  [v     |-> q.v,
   lang  |-> q.lang,
   tlang |-> Or(q.tlang, "zh-CN"),
   kind  |-> Or(q.kind, "asr"),
   fmt   |-> Or(q.fmt, "json3")]

\* the character class [a-zA-Z0-9_-]
IdChars == (97..122) \cup (65..90) \cup (48..57) \cup {95, 45}

\* params.v && /^[a-zA-Z0-9_-]{11}$/.test(params.v)
ValidVideoId(v) ==
  /\ v # <<>>
  /\ Len(v) = 11
  /\ \A i \in 1..Len(v) : v[i] \in IdChars

\* mutant: the length limit of the language code is not applied
ValidLang_NoLimit(l) == l # ""

\* params.lang && params.lang.length <= 10
ValidLang(l) == l # "" /\ Len(l) <= 10

generateCacheKey(p) == <<p.v, p.lang, p.tlang, p.kind, p.fmt>>

\* generateSourceHash keeps a 32-bit integer (hash & hash). The model holds it
\* as two unsigned 16-bit halves <<high, low>>, so that every intermediate
\* value stays inside the integers the checker computes with.
Half == 65536

\* hash = ((hash << 5) - hash) + char, wrapped to 32 bits
HashStep(h, char) ==
  LET low  == 31 * h[2] + char
      high == 31 * h[1] + (low \div Half)
  IN <<high % Half, low % Half>>

RECURSIVE HashFold(_, _)
HashFold(h, s) ==
  IF s = <<>> THEN h ELSE HashFold(HashStep(h, Head(s)), Tail(s))

\* Math.abs of the signed 32-bit value: the magnitude, as halves
Abs32(h) ==
  IF h[1] < Half \div 2 THEN h
  ELSE IF h[2] = 0 THEN <<Half - h[1], 0>>
  ELSE <<Half - 1 - h[1], Half - h[2]>>

\* digits of the magnitude in base 36, most significant first
\* (Number.toString(36))
RECURSIVE ToBase36(_)
ToBase36(h) ==
  LET rest == (h[1] % 36) * Half + h[2]
      quot == <<h[1] \div 36, rest \div 36>>
  IN IF quot = <<0, 0>> THEN <<rest % 36>>
     ELSE Append(ToBase36(quot), rest % 36)

generateSourceHash(content) == ToBase36(Abs32(HashFold(<<0, 0>>, content)))


\* ------------------------------------------------------------------------
\* State
\* ------------------------------------------------------------------------

VARIABLES
  cfg,            \* getConfig(): the configuration singleton
  now,            \* Date.now()
  reqs,           \* the client requests and where each handler stands
  jobs,           \* table caption_jobs
  lru,            \* lruCache
  meta,           \* table cache_metadata: cache_hits, cache_misses
  taskQueue,      \* taskQueue
  running,        \* tasks inside processTask, awaiting translateToBilingual
  isProcessing,   \* isProcessing
  workerInterval, \* workerInterval !== null
  lastDone,       \* history: per cache key, the output of the latest
                  \* processTask that completed successfully
  failedKeys,     \* history: the cache keys whose latest finished
                  \* processTask ended in the catch block
  tr,             \* one call of translateToBilingual: its arguments, the
                  \* locals of the translator functions it is in, and a
                  \* log of the LLM calls it has made
  seg             \* one call of mergeSubtitleCues: its arguments and its
                  \* locals, then the SRV3 rendering of what it returned

vars ==
  <<cfg, now, reqs, jobs, lru, meta, taskQueue, running, isProcessing,
    workerInterval, lastDone, failedKeys, tr, seg>>

\* the state of the request pipeline
pipelineVars ==
  <<cfg, now, reqs, jobs, lru, meta, taskQueue, running, isProcessing,
    workerInterval, lastDone, failedKeys>>

CacheKeys == { generateCacheKey(ParseQuery(q)) : q \in Queries }

\* config.cache.ttlHours * 60 * 60 * 1000 ms
ttlMs(c) == c.ttlHours * 60 * 60

\* ------------------------------------------------------------------------
\* cache_metadata (src/db/sqlite.ts)
\* ------------------------------------------------------------------------

\* mutant: the upsert overwrites the counter instead of adding to it
updateCacheMetadata_Overwrite(m, key, increment) ==
  [m EXCEPT ![key] = increment]

\* mutant: the increment is applied twice
updateCacheMetadata_Twice(m, key, increment) ==
  [m EXCEPT ![key] = @ + 2 * increment]

\* INSERT (key, increment) ON CONFLICT DO UPDATE SET value = value + increment
updateCacheMetadata(m, key, increment) ==
  [m EXCEPT ![key] = @ + increment]

\* ------------------------------------------------------------------------
\* LRU layer (lru-cache with max and ttl)
\* ------------------------------------------------------------------------

\* lru.get: the value, or Null when absent or older than the ttl
LruGet(l, key, t) ==
  IF l[key] # Null /\ t - l[key].setAt <= l[key].ttl
  THEN l[key].value ELSE Null

\* lru.set (the model never holds more than lruMaxItems = 1000 keys, so no
\* entry is evicted for size)
LruSet(l, key, value, t, c) ==
  [l EXCEPT ![key] = [value |-> value, setAt |-> t, ttl |-> ttlMs(c)]]

\* mutant: setBilingualSubtitle forgets to write the LRU
setBilingualSubtitle_NoWrite(l, key, content, t, c) == l

\* setBilingualSubtitle: writes the LRU layer only
setBilingualSubtitle(l, key, content, t, c) == LruSet(l, key, content, t, c)

\* ------------------------------------------------------------------------
\* caption_jobs (src/services/cache.ts, src/db/schema.sql)
\* ------------------------------------------------------------------------

\* UNIQUE(video_id, lang, track, fmt, source_hash)
Conflict(row, p) ==
  /\ row.video_id = p.videoId
  /\ row.lang = p.lang
  /\ row.track = p.track
  /\ row.fmt = p.fmt
  /\ row.source_hash = p.sourceHash

\* the row of INSERT INTO caption_jobs ... VALUES (...)
NewJobRow(p, t, c) ==
  [id             |-> p.id,
   video_id       |-> p.videoId,
   lang           |-> p.lang,
   track          |-> p.track,
   fmt            |-> p.fmt,
   source_hash    |-> p.sourceHash,
   status         |-> p.status,
   retry_count    |-> 0,
   next_retry_at  |-> NullInt,
   error_code     |-> "",
   bilingual_json |-> p.bilingualJson,
   created_at     |-> t,
   expires_at     |-> t + ttlMs(c)]

\* mutant: a plain INSERT on a table without the UNIQUE constraint
createCaptionJob_PlainInsert(J, p, t, c) == J \cup { NewJobRow(p, t, c) }

\* mutant: on a conflict the upsert resets bilingual_json but not status
createCaptionJob_KeepStatus(J, p, t, c) ==
  IF \E row \in J : Conflict(row, p)
  THEN { IF Conflict(row, p)
         THEN [row EXCEPT !.bilingual_json = p.bilingualJson]
         ELSE row : row \in J }
  ELSE J \cup { NewJobRow(p, t, c) }

\* INSERT ... ON CONFLICT(video_id, lang, track, fmt, source_hash) DO UPDATE
\* SET status, bilingual_json, updated_at
createCaptionJob(J, p, t, c) ==
  IF \E row \in J : Conflict(row, p)
  THEN { IF Conflict(row, p)
         THEN [row EXCEPT !.status = p.status,
                          !.bilingual_json = p.bilingualJson]
         ELSE row : row \in J }
  ELSE J \cup { NewJobRow(p, t, c) }

\* UPDATE caption_jobs SET ... WHERE id = ?
updateCaptionJobStatus(J, jobId, status, bilingualJson, error) ==
  { IF row.id # jobId THEN row
    ELSE IF error # ""
    THEN [row EXCEPT !.status = status, !.error_code = error]
    ELSE [row EXCEPT !.status = status, !.bilingual_json = bilingualJson,
                     !.error_code = ""]
    : row \in J }

RECURSIVE Pow2(_)
Pow2(n) == IF n <= 0 THEN 1 ELSE 2 * Pow2(n - 1)

\* retry_count + 1, next_retry_at = now + retryBaseMs * 2^(retryCount - 1),
\* retryCount being the incremented count
incrementJobRetry(J, jobId, t, c) ==
  { IF row.id # jobId THEN row
    ELSE [row EXCEPT !.retry_count = row.retry_count + 1,
                     !.next_retry_at =
                        t + (c.retryBaseMs \div MsPerSecond)
                              * Pow2((row.retry_count + 1) - 1)]
    : row \in J }

\* the rows getPendingJobs selects from (before ORDER BY created_at and
\* LIMIT): WHERE status IN ('pending', 'failed') AND retry_count < ?
\* AND (next_retry_at IS NULL OR next_retry_at <= ?)
getPendingJobs(J, t, c) ==
  { row \in J : /\ row.status \in {"pending", "failed"}
                /\ row.retry_count < c.maxRetries
                /\ (row.next_retry_at = NullInt \/ row.next_retry_at <= t) }

\* the rows the store-layer SELECT of getBilingualSubtitle can return:
\* WHERE video_id = ? AND lang = ? AND status = 'done'
\* ORDER BY created_at DESC LIMIT 1 (any one of the newest on a tie)
StoreLookup(J, cacheKey) ==
  LET done == { row \in J : /\ row.video_id = cacheKey[1]
                            /\ row.lang = cacheKey[2]
                            /\ row.status = "done" }
  IN { row \in done : \A o \in done : o.created_at <= row.created_at }

\* the values getBilingualSubtitle(cacheKey) can return in a state (Null: miss)
CacheAnswers(l, J, cacheKey, t) ==
  IF LruGet(l, cacheKey, t) # Null THEN { LruGet(l, cacheKey, t) }
  ELSE IF StoreLookup(J, cacheKey) = {} THEN { Null }
  ELSE { row.bilingual_json : row \in StoreLookup(J, cacheKey) }


\* ------------------------------------------------------------------------
\* Upstream and translation values
\* ------------------------------------------------------------------------

\* the body YouTube returns for a request: the document in the format asked
\* for in the fmt parameter of the timedtext URL
UpstreamBody(p, doc) == [fmt |-> p.fmt, doc |-> doc]

\* parseTimedTextResponse: every upstream format is normalised to the JSON3
\* object (YouTubeTimedTextResponse)
parseTimedTextResponse(raw) == [fmt |-> "json3", doc |-> raw.doc]

\* JSON.stringify(originalJson): the characters of the document
Stringify(json) == json.doc

\* the WebVTT text processTask renders for a task: the bilingual cues of the
\* task's document in the task's target language; `by` tells the outputs of
\* two translation runs apart (the LLM need not answer twice alike)
renderWebVTT(task) ==
  [fmt   |-> "webvtt",
   doc   |-> task.originalJson.doc,
   tlang |-> task.params.tlang,
   kind  |-> task.params.kind,
   by    |-> task.id]

\* body of the 200 reply on a cache miss (routes.ts 343-351)
MissBody(p, originalJson) ==
  IF p.fmt = "vtt"
  THEN [fmt |-> "vtt", doc |-> <<>>]
  ELSE [fmt |-> "json3", doc |-> Stringify(originalJson)]

NoReply == [status |-> 0, error |-> "", cache |-> "", translation |-> "",
            body |-> Null]

ErrorReply(status, error) ==
  [status |-> status, error |-> error, cache |-> "", translation |-> "",
   body |-> Null]

HitReply(content) ==
  [status |-> 200, error |-> "", cache |-> "HIT",
   translation |-> "completed", body |-> content]

MissReply(p, originalJson) ==
  [status |-> 200, error |-> "", cache |-> "MISS",
   translation |-> "pending", body |-> MissBody(p, originalJson)]

IdleReq ==
  [pc |-> "idle", params |-> Null, seen |-> Null, sawFailed |-> FALSE,
   fetched |-> Null, misses0 |-> 0, hits0 |-> 0, task |-> 0,
   reply |-> NoReply]

\* ------------------------------------------------------------------------
\* Initial state: after startServer, before any request
\* ------------------------------------------------------------------------

InitWith(c) ==
  /\ cfg = c
  /\ now = 0
  /\ reqs = [r \in ReqIds |-> IdleReq]
  /\ jobs = {}
  /\ lru = [k \in CacheKeys |-> Null]
  /\ meta = [cache_hits |-> 0, cache_misses |-> 0]
  /\ taskQueue = <<>>
  /\ running = {}
  /\ isProcessing = FALSE
  /\ workerInterval = FALSE
  /\ lastDone = [k \in CacheKeys |-> Null]
  /\ failedKeys = {}

\* no translation is looked into
Init == InitWith(DefaultConfig) /\ tr = Null /\ seg = Null

\* any of the configurations
InitCfg == (\E c \in Configs : InitWith(c)) /\ tr = Null /\ seg = Null

\* ------------------------------------------------------------------------
\* GET /api/subtitle (src/http/routes.ts 265-371)
\* ------------------------------------------------------------------------

\* mutant: the handler awaits the translation before it replies
AfterEnqueue_Awaits == "awaiting"

\* where the handler stands once enqueueTranslation has been called: the
\* promise is not awaited, the reply follows at once
AfterEnqueue == "replied"

\* the request arrives: validation, then the cache lookup; on a miss the
\* handler suspends in fetchYouTubeSubtitle. Requests are numbered in the
\* order they arrive.
Receive(r) ==
  /\ reqs[r].pc = "idle"
  /\ \A earlier \in 1..(r - 1) : reqs[earlier].pc # "idle"
  /\ \E q \in Queries :
       LET p   == ParseQuery(q)
           key == generateCacheKey(p)
           req == [reqs[r] EXCEPT !.params = p,
                                  !.sawFailed = (key \in failedKeys),
                                  !.hits0 = meta.cache_hits,
                                  !.misses0 = meta.cache_misses]
       IN
       \/ /\ ~ValidVideoId(p.v)
          /\ reqs' = [reqs EXCEPT ![r] =
                        [req EXCEPT !.pc = "replied",
                                    !.reply = ErrorReply(400, "invalid_video_id")]]
          /\ UNCHANGED <<lru, meta>>
       \/ /\ ValidVideoId(p.v)
          /\ ~ValidLang(p.lang)
          /\ reqs' = [reqs EXCEPT ![r] =
                        [req EXCEPT !.pc = "replied",
                                    !.reply = ErrorReply(400, "invalid_language")]]
          /\ UNCHANGED <<lru, meta>>
       \/ /\ ValidVideoId(p.v)
          /\ ValidLang(p.lang)
          /\ \E cached \in CacheAnswers(lru, jobs, key, now) :
               IF cached # Null
               THEN /\ reqs' = [reqs EXCEPT ![r] =
                                  [req EXCEPT !.pc = "replied",
                                              !.seen = lastDone[key],
                                              !.reply = HitReply(cached)]]
                    /\ lru' = IF LruGet(lru, key, now) # Null THEN lru
                              ELSE LruSet(lru, key, cached, now, cfg)
                    /\ meta' = updateCacheMetadata(meta, "cache_hits", 1)
               ELSE /\ reqs' = [reqs EXCEPT ![r] =
                                  [req EXCEPT !.pc = "fetching",
                                              !.seen = lastDone[key]]]
                    /\ lru' = lru
                    /\ meta' = updateCacheMetadata(meta, "cache_misses", 1)
  /\ UNCHANGED <<cfg, now, jobs, taskQueue, running, isProcessing,
                 workerInterval, lastDone, failedKeys, tr, seg>>

\* mutant: the fetch error reaches the outer catch of the handler
FetchFailReply_Internal == ErrorReply(500, "internal_error")

\* the reply of the catch around fetchYouTubeSubtitle
FetchFailReply == ErrorReply(503, "youtube_api_error")

\* the upstream fetch throws: 503 youtube_api_error
FetchFail(r) ==
  /\ reqs[r].pc = "fetching"
  /\ \E why \in FetchFailures :
       reqs' = [reqs EXCEPT ![r] =
                  [@ EXCEPT !.pc = "replied",
                            !.fetched = [ok |-> FALSE, why |-> why],
                            !.reply = FetchFailReply]]
  /\ UNCHANGED <<cfg, now, jobs, lru, meta, taskQueue, running, isProcessing,
                 workerInterval, lastDone, failedKeys, tr, seg>>

\* the row enqueueTranslation asks createCaptionJob for
JobParams(task) ==
  [id            |-> task.id,
   videoId       |-> task.params.v,
   lang          |-> task.params.lang,
   track         |-> task.params.kind,
   fmt           |-> task.params.fmt,
   sourceHash    |-> task.sourceHash,
   status        |-> "pending",
   bilingualJson |-> Null]

\* the upstream fetch returns: source hash, enqueueTranslation (push, upsert
\* of the job row, startWorker), and the reply with the original subtitle.
\* randomUUID() is modelled by the request's number: one id per call.
FetchOk(r) ==
  /\ reqs[r].pc = "fetching"
  /\ \E doc \in Contents :
       LET p            == reqs[r].params
           raw          == UpstreamBody(p, doc)
           originalJson == parseTimedTextResponse(raw)
           sourceHash   == generateSourceHash(Stringify(originalJson))
           task         == [id |-> r, params |-> p,
                            originalJson |-> originalJson,
                            sourceHash |-> sourceHash]
       IN /\ taskQueue' = Append(taskQueue, task)
          /\ jobs' = createCaptionJob(jobs, JobParams(task), now, cfg)
          /\ workerInterval' = (workerInterval \/ ~isProcessing)
          /\ reqs' = [reqs EXCEPT ![r] =
                        [@ EXCEPT !.pc = AfterEnqueue,
                                  !.fetched = [ok |-> TRUE, raw |-> raw],
                                  !.task = task.id,
                                  !.reply = MissReply(p, originalJson)]]
  /\ UNCHANGED <<cfg, now, lru, meta, running, isProcessing, lastDone,
                 failedKeys, tr, seg>>


\* ------------------------------------------------------------------------
\* Translation queue (src/queue/queue.ts)
\* ------------------------------------------------------------------------

Min(a, b) == IF a < b THEN a ELSE b

\* mutant: the whole queue is taken
SpliceCount_All(queue, c) == Len(queue)

\* taskQueue.splice(0, config.queue.concurrency): how many tasks are taken
SpliceCount(queue, c) == Min(Len(queue), c.concurrency)

RECURSIVE MarkTranslating(_, _)
\* the synchronous head of processTask for every task of the batch:
\* updateCaptionJobStatus(id, 'translating')
MarkTranslating(J, batch) ==
  IF batch = <<>> THEN J
  ELSE MarkTranslating(
         updateCaptionJobStatus(J, Head(batch).id, "translating", Null, ""),
         Tail(batch))

Range(s) == { s[i] : i \in DOMAIN s }

\* one firing of the 5-second interval of startWorker: processQueue takes up
\* to `concurrency` tasks and starts processTask for each; with an empty
\* queue it reads getPendingJobs and returns without doing anything
WorkerTick ==
  /\ workerInterval
  /\ ~isProcessing
  /\ LET n     == SpliceCount(taskQueue, cfg)
         batch == SubSeq(taskQueue, 1, n)
     IN /\ taskQueue' = SubSeq(taskQueue, n + 1, Len(taskQueue))
        /\ running' = Range(batch)
        /\ jobs' = MarkTranslating(jobs, batch)
        /\ isProcessing' = (n > 0)
  /\ UNCHANGED <<cfg, now, reqs, lru, meta, workerInterval, lastDone,
                 failedKeys, tr, seg>>

\* processTask, after translateToBilingual returned: render, write the
\* cache, mark the row done; the last task of a batch ends processQueue
TaskSucceed(task) ==
  /\ task \in running
  /\ LET webvtt   == renderWebVTT(task)
         cacheKey == generateCacheKey(task.params)
     IN /\ lru' = setBilingualSubtitle(lru, cacheKey, webvtt, now, cfg)
        /\ jobs' = updateCaptionJobStatus(jobs, task.id, "done", webvtt, "")
        /\ lastDone' = [lastDone EXCEPT ![cacheKey] = webvtt]
        /\ failedKeys' = failedKeys \ {cacheKey}
  /\ running' = running \ {task}
  /\ isProcessing' = (running' # {})
  /\ UNCHANGED <<cfg, now, reqs, meta, taskQueue, workerInterval, tr, seg>>

\* processTask, catch block: the row is marked failed with the error, then
\* incrementJobRetry
TaskFail(task) ==
  /\ task \in running
  /\ jobs' = incrementJobRetry(
               updateCaptionJobStatus(jobs, task.id, "failed", Null,
                                      "translation_error"),
               task.id, now, cfg)
  /\ failedKeys' = failedKeys \cup {generateCacheKey(task.params)}
  /\ running' = running \ {task}
  /\ isProcessing' = (running' # {})
  /\ UNCHANGED <<cfg, now, reqs, lru, meta, taskQueue, workerInterval,
                 lastDone, tr, seg>>

\* ------------------------------------------------------------------------
\* Lifecycle (src/http/server.ts)
\* ------------------------------------------------------------------------

\* shutdown (closeDatabase, process.exit) followed by startServer: the
\* database file survives; the LRU, the queue, the running tasks, the worker
\* timer and the open connections do not
Restart ==
  /\ reqs' = [r \in ReqIds |->
                IF reqs[r].pc = "fetching"
                THEN [reqs[r] EXCEPT !.pc = "dropped"] ELSE reqs[r]]
  /\ lru' = [k \in CacheKeys |-> Null]
  /\ taskQueue' = <<>>
  /\ running' = {}
  /\ isProcessing' = FALSE
  /\ workerInterval' = FALSE
  /\ UNCHANGED <<cfg, now, jobs, meta, lastDone, failedKeys, tr, seg>>

\* ------------------------------------------------------------------------
\* Time and the TTL cleanup (src/db/sqlite.ts, src/http/server.ts)
\* ------------------------------------------------------------------------

\* the readings of the clock that are followed: the start, a moment later,
\* one TTL after the start, and a moment after that
ClockValues ==
  { 0, 1, ttlMs(DefaultConfig), ttlMs(DefaultConfig) + 1 }

\* time passes: the clock moves on to a later reading
AdvanceTime ==
  /\ \E t \in ClockValues :
       /\ t > now
       /\ now' = t
  /\ UNCHANGED <<cfg, reqs, jobs, lru, meta, taskQueue, running, isProcessing,
                 workerInterval, lastDone, failedKeys, tr, seg>>

\* mutant: DELETE ... WHERE expires_at <= now
cleanupExpiredJobs_Inclusive(J, t) == { row \in J : ~(row.expires_at <= t) }

\* DELETE FROM caption_jobs WHERE expires_at < now
cleanupExpiredJobs(J, t) == { row \in J : ~(row.expires_at < t) }

\* result.changes of the DELETE: what cleanupExpiredJobs returns
deletedCount(J, t) == Cardinality(J) - Cardinality(cleanupExpiredJobs(J, t))

\* one firing of the cleanup interval of startServer
Cleanup ==
  /\ jobs' = cleanupExpiredJobs(jobs, now)
  /\ UNCHANGED <<cfg, now, reqs, lru, meta, taskQueue, running, isProcessing,
                 workerInterval, lastDone, failedKeys, tr, seg>>

\* ------------------------------------------------------------------------
\* Specification
\* ------------------------------------------------------------------------

Next ==
  \/ \E r \in ReqIds : Receive(r)
  \/ \E r \in ReqIds : FetchFail(r)
  \/ \E r \in ReqIds : FetchOk(r)
  \/ WorkerTick
  \/ \E task \in running : TaskSucceed(task)
  \/ \E task \in running : TaskFail(task)

Spec == Init /\ [][Next]_vars

\* the same program under every configuration of Configs
SpecCfg == InitCfg /\ [][Next]_vars


\* the same program with shutdowns and restarts
SpecRestart == Init /\ [][Next \/ Restart]_vars

\* the same program with the clock running and the cleanup interval firing
SpecTime == Init /\ [][Next \/ AdvanceTime \/ Cleanup]_vars

\* a task an earlier process enqueued for the video: enqueueTranslation's
\* task record, with the randomUUID of that process
EarlierTask(id, fmt, doc) ==
  LET p            == ParseQuery([v |-> VideoId, lang |-> "en",
                                  tlang |-> "zh-CN", kind |-> "", fmt |-> fmt])
      originalJson == parseTimedTextResponse(UpstreamBody(p, doc))
  IN [id |-> id, params |-> p, originalJson |-> originalJson,
      sourceHash |-> generateSourceHash(Stringify(originalJson))]

\* what an earlier process can have left in the database file when it was
\* shut down: a job that was enqueued or being translated, alone or beside
\* a job of the same video in another format that was completed
EarlierRuns ==
  LET completed == EarlierTask(MaxReqs + 1, "json3", <<99, 49>>)
      cut       == EarlierTask(MaxReqs + 2, "srv3", <<99, 49>>)
      enqueued(J, task) ==
        createCaptionJob(J, JobParams(task), 0, DefaultConfig)
      none == [k \in CacheKeys |-> Null]
  IN { [jobs |-> enqueued({}, cut), lastDone |-> none],
       [jobs |-> MarkTranslating(enqueued({}, cut), <<cut>>),
        lastDone |-> none],
       [jobs |-> updateCaptionJobStatus(
                   MarkTranslating(enqueued(enqueued({}, completed), cut),
                                   <<completed, cut>>),
                   completed.id, "done", renderWebVTT(completed), ""),
        lastDone |-> [none EXCEPT ![generateCacheKey(completed.params)] =
                                     renderWebVTT(completed)]] }

\* startServer on the database file an earlier process left
InitRecovered ==
  /\ cfg = DefaultConfig
  /\ now = 0
  /\ reqs = [r \in ReqIds |-> IdleReq]
  /\ \E left \in EarlierRuns : jobs = left.jobs /\ lastDone = left.lastDone
  /\ lru = [k \in CacheKeys |-> Null]
  /\ meta = [cache_hits |-> 0, cache_misses |-> 0]
  /\ taskQueue = <<>>
  /\ running = {}
  /\ isProcessing = FALSE
  /\ workerInterval = FALSE
  /\ failedKeys = {}
  /\ tr = Null
  /\ seg = Null

\* the program started on the database of an earlier process
SpecRecovered == InitRecovered /\ [][Next]_vars

\* the store after a task for `fmt` was enqueued at time t and came to
\* `outcome`: the row as createCaptionJob, updateCaptionJobStatus and
\* incrementJobRetry write it
StoreOfTask(id, fmt, t, outcome) ==
  LET task     == EarlierTask(id, fmt, <<99, 49>>)
      enqueued == createCaptionJob({}, JobParams(task), t, DefaultConfig)
      taken    == MarkTranslating(enqueued, <<task>>)
  IN CASE outcome = "pending" -> enqueued
       [] outcome = "done" ->
            updateCaptionJobStatus(taken, id, "done", renderWebVTT(task), "")
       [] outcome = "failed" ->
            incrementJobRetry(
              updateCaptionJobStatus(taken, id, "failed", Null,
                                     "translation_error"),
              id, t, DefaultConfig)
       [] OTHER -> {}

\* the ways one job can stand in the store: absent, or created at one of the
\* clock readings and pending, done or failed
JobHistories ==
  { [t |-> 0, outcome |-> "absent"] }
    \cup [t : ClockValues, outcome : {"pending", "done", "failed"}]

FormatList == <<"json3", "srv3", "vtt">>

\* the stores holding at most one job per format of the video
Stores ==
  { UNION { StoreOfTask(MaxReqs + i, FormatList[i], h[i].t, h[i].outcome) :
              i \in DOMAIN FormatList } :
      h \in [DOMAIN FormatList -> JobHistories] }

\* the output of the completed job of cache key k in store J, Null if none
StoredOutput(J, k) ==
  LET done == { row \in J : /\ row.status = "done"
                            /\ <<row.video_id, row.lang, row.bilingual_json.tlang,
                                  row.track, row.fmt>> = k }
  IN IF done = {} THEN Null ELSE (CHOOSE row \in done : TRUE).bilingual_json

\* the process right after the latest job of a store was written, with no
\* request under way
InitCleanup ==
  /\ cfg = DefaultConfig
  /\ now \in ClockValues
  /\ reqs = [r \in ReqIds |-> IdleReq]
  /\ jobs \in { J \in Stores : /\ \A row \in J : row.created_at <= now
                               /\ \E row \in J : row.created_at = now }
  /\ lru = [k \in CacheKeys |-> Null]
  /\ meta = [cache_hits |-> 0, cache_misses |-> 0]
  /\ taskQueue = <<>>
  /\ running = {}
  /\ isProcessing = FALSE
  /\ workerInterval = FALSE
  /\ lastDone = [k \in CacheKeys |-> StoredOutput(jobs, k)]
  /\ failedKeys = {}
  /\ tr = Null
  /\ seg = Null

\* the cleanup interval firing on such stores while time passes
SpecCleanup == InitCleanup /\ [][AdvanceTime \/ Cleanup]_vars

\* ------------------------------------------------------------------------
\* Translator (src/services/translator.ts): values and configuration
\* ------------------------------------------------------------------------

\* largest number of cues handed to translateToBilingual
MaxCues == 3

\* sizes of the cue lists: none, one, several
CueCounts == { 0, 1, MaxCues }

\* settings of translationContext, translationSummary and
\* translationGlossary an operator can make; batchSize and concurrency 0 are
\* raised to 1 by the translator
TranslatorConfigs ==
  [contextEnabled  : BOOLEAN,
   summaryEnabled  : BOOLEAN,
   glossaryEnabled : BOOLEAN,
   batchSize       : { 0, 2 },
   concurrency     : { 0, 2 },
   batchRetries    : { 0, 1 }]

\* the text of input cue i (cue indices start at 0)
OriginalText(i) == [kind |-> "original", cue |-> i]

\* input cue i
Cue(i) ==
  [startTime |-> i * 1000, endTime |-> (i + 1) * 1000,
   text |-> OriginalText(i)]

\* the text an LLM reply gives as the translation of the line with id i:
\* in item {id: i, translation} of the reply to attempt `attempt` of a
\* context batch (via "batch"), or as the reply to the single-line prompt
\* for cue i (via "line")
Translation(i, via, attempt) ==
  [kind |-> "translation", cue |-> i, via |-> via, attempt |-> attempt]

\* the summary and the glossary the guidance calls return
SummaryText == [kind |-> "summary"]
GlossaryText == [kind |-> "glossary"]

Max(a, b) == IF a > b THEN a ELSE b

\* Math.ceil(a / b) for a >= 0, b > 0
CeilDiv(a, b) == (a + b - 1) \div b

\* number of chunks splitTranscriptText can cut a transcript into
ChunkCounts == { 1, 2 }

\* summarizeTranscriptText / extractGlossaryText: one call for a single
\* chunk, otherwise one call per chunk and a final one; `ok` tells for each
\* call whether it returned text; any failure is caught and gives null
GuidanceCalls(chunks) == IF chunks = 1 THEN 1 ELSE chunks + 1

summarizeTranscriptText(chunks, ok) ==
  IF \A i \in 1..GuidanceCalls(chunks) : ok[i] THEN SummaryText ELSE Null

extractGlossaryText(chunks, ok) ==
  IF \A i \in 1..GuidanceCalls(chunks) : ok[i] THEN GlossaryText ELSE Null

\* outcomes of the calls of one guidance function
GuidanceOutcomes == [1..GuidanceCalls(2) -> BOOLEAN]

\* the catch block of summarizeTranscriptText / extractGlossaryText ran: one
\* of the calls it made threw or returned no text
GuidanceFailed(chunks, ok) == \E i \in 1..GuidanceCalls(chunks) : ~ok[i]

\* buildTranslationGuidance: what it can return for n cues, over every
\* chunking of the transcript and every outcome of the guidance calls. With
\* both kinds disabled, or an empty transcript, no call is made.
buildTranslationGuidance(c, n) ==
  IF (~c.summaryEnabled /\ ~c.glossaryEnabled) \/ n = 0
  THEN { [summary |-> Null, glossary |-> Null,
           summaryFailed |-> FALSE, glossaryFailed |-> FALSE] }
  ELSE { [summary  |-> IF c.summaryEnabled
                       THEN summarizeTranscriptText(chunks, okS) ELSE Null,
          glossary |-> IF c.glossaryEnabled
                       THEN extractGlossaryText(chunks, okG) ELSE Null,
          summaryFailed  |-> c.summaryEnabled /\ GuidanceFailed(chunks, okS),
          glossaryFailed |-> c.glossaryEnabled /\ GuidanceFailed(chunks, okG)] :
           chunks \in ChunkCounts, okS \in GuidanceOutcomes,
           okG \in GuidanceOutcomes }

\* buildContextualTranslationPrompt for the batch at position k of ranges:
\* the summary and glossary sections carry the text, or "(None)" for null
buildContextualTranslationPrompt(k, summary, glossary) ==
  [call |-> "batch", range |-> k, summary |-> summary, glossary |-> glossary]

\* mutant: the single-line prompt is built without the guidance
buildTranslationPrompt_NoGuidance(i, summary, glossary) ==
  [call |-> "line", cue |-> i, summary |-> Null, glossary |-> Null]

\* buildTranslationPrompt for the single line of cue i: a section is left
\* out when its text is undefined
buildTranslationPrompt(i, summary, glossary) ==
  [call |-> "line", cue |-> i, summary |-> summary, glossary |-> glossary]

\* ranges of translateBatchWithContext: start (inclusive), end (exclusive)
\* and batchIndex of every batch
Ranges(n, batchSize) ==
  [k \in 1..CeilDiv(n, batchSize) |->
     [start      |-> (k - 1) * batchSize,
      end        |-> Min(k * batchSize, n),
      batchIndex |-> k]]

\* Math.max(1, config.translationContext.batchSize)
BatchSize(c) == Max(1, c.batchSize)

\* mutant: one pool worker per batch, whatever the configured concurrency
BatchConcurrency_PerBatch(c, n) == Max(1, CeilDiv(n, BatchSize(c)))

\* Math.max(1, Math.min(config.translationContext.concurrency, totalBatches))
\* with totalBatches = Math.max(1, Math.ceil(cues.length / batchSize))
BatchConcurrency(c, n) ==
  Max(1, Min(c.concurrency, Max(1, CeilDiv(n, BatchSize(c)))))

\* mutant: the loop of runBatch runs while attempt <= batchRetries + 1
BatchRetries_OneMore(c) == Max(0, c.batchRetries) + 1

\* Math.max(0, config.translationContext.batchRetries)
BatchRetries(c) == Max(0, c.batchRetries)

\* ------------------------------------------------------------------------
\* Translator: translateToBilingual and the context-aware path
\* ------------------------------------------------------------------------

\* cue indices of a list of n cues
Indices(n) == 0..(n - 1)

\* translateToBilingual(originalCues, targetLang, concurrency) has been
\* called with n cues under translator configuration c: it is in
\* translateBatchWithContext or in translateBatch, at the await of
\* buildTranslationGuidance
TranslatorEntered(c, n) ==
  [phase           |-> "guidance",
   path            |-> IF c.contextEnabled THEN "context" ELSE "simple",
   tookOver        |-> FALSE,
   tcfg            |-> c,
   n               |-> n,
   summary         |-> Null,
   glossary        |-> Null,
   summaryFailed   |-> FALSE,
   glossaryFailed  |-> FALSE,
   translatedTexts |-> [i \in Indices(n) |-> Null],
   nextRangeIndex  |-> 0,
   workers         |-> <<>>,
   results         |-> <<>>,
   prompts         |-> {},
   completed       |-> <<>>,
   fellBack        |-> {},
   translatedCues  |-> Null,
   out             |-> Null]

\* mutant: the translation is put before the original text
BilingualCues_TranslationFirst(n, translatedCues) ==
  [i \in Indices(n) |->
     [startTime |-> Cue(i).startTime,
      endTime   |-> Cue(i).endTime,
      text      |-> <<translatedCues[i].text, Cue(i).text>>]]

\* the loop at the end of translateToBilingual: timing of the original cue,
\* text `${original.text}\n${translated.text}` (held as the pair of the two)
BilingualCues(n, translatedCues) ==
  [i \in Indices(n) |->
     [startTime |-> Cue(i).startTime,
      endTime   |-> Cue(i).endTime,
      text      |-> <<Cue(i).text, translatedCues[i].text>>]]

\* translateToBilingual returns
Returned(t, translatedCues) ==
  [t EXCEPT !.phase = "returned",
            !.translatedCues = translatedCues,
            !.out = BilingualCues(t.n, translatedCues)]

\* mutant: a translation is written to the first slot that is still empty
SlotOf_NextFree(texts, id) ==
  IF \E i \in DOMAIN texts : texts[i] = Null
  THEN CHOOSE i \in DOMAIN texts :
         /\ texts[i] = Null
         /\ \A j \in DOMAIN texts : texts[j] = Null => i <= j
  ELSE id

\* translatedTexts[item.id] = item.translation: the slot is the item's id
SlotOf(texts, id) == id

\* one turn of the loop of a pool worker: rangeIndex = nextRangeIndex++, then
\* break, or runBatch up to its first LLM call
TakeNext(t, w) ==
  LET rangeIndex == t.nextRangeIndex
      ranges     == Ranges(t.n, BatchSize(t.tcfg))
  IN IF rangeIndex >= Len(ranges)
     THEN [t EXCEPT !.nextRangeIndex = @ + 1,
                    !.workers[w] = [pc |-> "done", range |-> 0, attempt |-> 0]]
     ELSE [t EXCEPT !.nextRangeIndex = @ + 1,
                    !.workers[w] = [pc |-> "calling", range |-> rangeIndex + 1,
                                    attempt |-> 0],
                    !.prompts = @ \cup
                      { buildContextualTranslationPrompt(
                          rangeIndex + 1, t.summary, t.glossary) }]

RECURSIVE StartWorkers(_, _)
\* Array.from({ length: batchConcurrency }, async () => ...): every worker
\* runs up to its first await, in order
StartWorkers(t, w) ==
  IF w > Len(t.workers) THEN t ELSE StartWorkers(TakeNext(t, w), w + 1)

\* the return of translateBatchWithContext once Promise.all(workers) has
\* resolved: text = translatedTexts[index] ?? cue.text
ContextReturn(t) ==
  IF \A w \in DOMAIN t.workers : t.workers[w].pc = "done"
  THEN Returned(t, [i \in Indices(t.n) |->
                      [Cue(i) EXCEPT !.text =
                         IF t.translatedTexts[i] # Null
                         THEN t.translatedTexts[i] ELSE Cue(i).text]])
  ELSE t

\* buildTranslationGuidance of the context path resolves; the pool starts
ContextGuidanceDone ==
  /\ tr.phase = "guidance"
  /\ tr.path = "context"
  /\ \E g \in buildTranslationGuidance(tr.tcfg, tr.n) :
       tr' = ContextReturn(StartWorkers(
               [tr EXCEPT !.phase = "context",
                          !.summary = g.summary,
                          !.glossary = g.glossary,
                          !.summaryFailed = g.summaryFailed,
                          !.glossaryFailed = g.glossaryFailed,
                          !.workers =
                            [w \in 1..BatchConcurrency(tr.tcfg, tr.n) |->
                               [pc |-> "new", range |-> 0, attempt |-> 0]]],
               1))
  /\ UNCHANGED <<pipelineVars, seg>>

\* an exception leaves translateBatchWithContext before the pool is started
\* (getConfig, getOpenAIClient, buildTranslationGuidance are outside every
\* try block): translateToBilingual catches it and calls translateBatch
ContextThrows ==
  /\ tr.phase = "guidance"
  /\ tr.path = "context"
  /\ tr' = [tr EXCEPT !.path = "simple", !.tookOver = TRUE]
  /\ UNCHANGED <<pipelineVars, seg>>

\* replies of the LLM to the prompt of a batch. An invalid reply is one that
\* makes the call or parseTranslationBatch throw (network error, empty
\* content, no JSON array, wrong length, an item without an integer id or
\* without a non-empty translation). A valid reply is a list of as many
\* items as the batch has lines; `ids` are their ids in the order of the
\* reply, each an index of the batch or the index that follows the batch.
BatchReplies(range) ==
  { [valid |-> FALSE, ids |-> <<>>] }
  \cup { [valid |-> TRUE, ids |-> ids] :
           ids \in [1..(range.end - range.start) -> range.start..range.end] }

RECURSIVE ApplyItems(_, _, _, _)
\* the loop over the parsed items in runBatch: an id outside the batch
\* throws, the items before it have been written
ApplyItems(texts, ids, expectedIds, attempt) ==
  IF ids = <<>> THEN [texts |-> texts, thrown |-> FALSE]
  ELSE IF Head(ids) \notin expectedIds THEN [texts |-> texts, thrown |-> TRUE]
  ELSE ApplyItems(
         [texts EXCEPT ![SlotOf(texts, Head(ids))] =
            Translation(Head(ids), "batch", attempt)],
         Tail(ids), expectedIds, attempt)

\* the prompts of fallbackBatch: translateText for every line of the batch
\* with summary || undefined, glossary || undefined
FallbackPrompts(t, range) ==
  { buildTranslationPrompt(i, t.summary, t.glossary) :
      i \in range.start..(range.end - 1) }

\* the LLM call of worker w's batch settles: the reply is applied and
\* checked; the batch is completed, retried, or handed to fallbackBatch
BatchResponse(w) ==
  /\ tr.phase = "context"
  /\ w \in DOMAIN tr.workers
  /\ tr.workers[w].pc = "calling"
  /\ LET range       == Ranges(tr.n, BatchSize(tr.tcfg))[tr.workers[w].range]
         expectedIds == range.start..(range.end - 1)
         attempt     == tr.workers[w].attempt
     IN \E reply \in BatchReplies(range) :
          LET applied == IF reply.valid
                         THEN ApplyItems(tr.translatedTexts, reply.ids,
                                         expectedIds, attempt)
                         ELSE [texts |-> tr.translatedTexts, thrown |-> TRUE]
              missing == \E id \in expectedIds : applied.texts[id] = Null
              t1      == [tr EXCEPT !.translatedTexts = applied.texts]
          IN IF ~applied.thrown /\ ~missing
             THEN tr' = ContextReturn(TakeNext(
                          [t1 EXCEPT !.completed = Append(@, range.batchIndex)],
                          w))
             ELSE IF attempt >= BatchRetries(tr.tcfg)
             THEN tr' = [t1 EXCEPT !.workers[w].pc = "fallback",
                                   !.fellBack = @ \cup {range.batchIndex},
                                   !.prompts = @ \cup FallbackPrompts(t1, range)]
             ELSE tr' = [t1 EXCEPT !.workers[w].attempt = @ + 1]
  /\ UNCHANGED <<pipelineVars, seg>>

\* mutant: translateText is called in fallbackBatch without the try block
FallbackCatch_Missing == FALSE

\* fallbackBatch wraps every translateText call in try/catch and returns
\* cue.text from the catch
FallbackCatch == TRUE

\* the single-line calls of fallbackBatch have all settled (Promise.all):
\* the lines in `failed` threw and keep the original text. (Were the throw
\* not caught, it would leave translateBatchWithContext through
\* Promise.all(workers) and translateToBilingual would call translateBatch.)
FallbackDone(w) ==
  /\ tr.phase = "context"
  /\ w \in DOMAIN tr.workers
  /\ tr.workers[w].pc = "fallback"
  /\ LET range == Ranges(tr.n, BatchSize(tr.tcfg))[tr.workers[w].range]
         lines == range.start..(range.end - 1)
     IN \E failed \in SUBSET lines :
          IF failed # {} /\ ~FallbackCatch
          THEN tr' = [tr EXCEPT !.phase = "guidance", !.path = "simple",
                                !.tookOver = TRUE]
          ELSE
          tr' = ContextReturn(TakeNext(
                  [tr EXCEPT
                     !.translatedTexts =
                        [i \in Indices(tr.n) |->
                           IF i \notin lines THEN tr.translatedTexts[i]
                           ELSE IF i \in failed THEN Cue(i).text
                           ELSE Translation(i, "line", 0)],
                     !.completed = Append(@, range.batchIndex)],
                  w))
  /\ UNCHANGED <<pipelineVars, seg>>

\* ------------------------------------------------------------------------
\* Translator: the simple path (translateBatch)
\* ------------------------------------------------------------------------

\* Math.min(concurrency, config.queue.concurrency); processTask passes
\* config.queue.concurrency
ActualConcurrency(concurrency, c) == Min(concurrency, c.concurrency)

\* the cues of the wave that starts at cue i
Wave(i, n, c) ==
  i..(Min(i + ActualConcurrency(c.concurrency, c), n) - 1)

\* translateBatch from the start of a wave at cue i: the single-line calls
\* of the wave are made, or, with no cue left, the function returns and
\* translateToBilingual builds the bilingual cues
StartWave(t, i, c) ==
  IF i < t.n
  THEN [t EXCEPT !.prompts = @ \cup
                   { buildTranslationPrompt(j, t.summary, t.glossary) :
                       j \in Wave(i, t.n, c) }]
  ELSE Returned(t, [j \in Indices(t.n) |-> t.results[j + 1]])

\* buildTranslationGuidance of translateBatch resolves; the first wave starts
SimpleGuidanceDone ==
  /\ tr.phase = "guidance"
  /\ tr.path = "simple"
  /\ \E g \in buildTranslationGuidance(tr.tcfg, tr.n) :
       tr' = StartWave([tr EXCEPT !.phase = "simple",
                                  !.summary = g.summary,
                                  !.glossary = g.glossary,
                                  !.summaryFailed = g.summaryFailed,
                                  !.glossaryFailed = g.glossaryFailed],
                       0, cfg)
  /\ UNCHANGED <<pipelineVars, seg>>

\* the calls of a wave have all settled: a cue whose call threw is kept as
\* it is, the others get the translation as text; results.push in the order
\* of the cues; after sleep(200) the next wave starts
WaveDone ==
  /\ tr.phase = "simple"
  /\ LET i == Len(tr.results)
     IN \E failed \in SUBSET Wave(i, tr.n, cfg) :
          LET batchResults ==
                [k \in 1..Cardinality(Wave(i, tr.n, cfg)) |->
                   LET j == i + k - 1
                   IN IF j \in failed THEN Cue(j)
                      ELSE [Cue(j) EXCEPT !.text = Translation(j, "line", 0)]]
              t1 == [tr EXCEPT !.results = @ \o batchResults]
          IN tr' = StartWave(t1, Len(t1.results), cfg)
  /\ UNCHANGED <<pipelineVars, seg>>

\* ------------------------------------------------------------------------
\* Translator: specification
\* ------------------------------------------------------------------------

\* a call of translateToBilingual on any of the cue lists under any of the
\* translator configurations
InitTranslator ==
  /\ InitWith(DefaultConfig)
  /\ tr \in { TranslatorEntered(c, n) :
               c \in TranslatorConfigs, n \in CueCounts }
  /\ seg = Null

NextTranslator ==
  \/ ContextGuidanceDone
  \/ ContextThrows
  \/ \E w \in DOMAIN tr.workers : BatchResponse(w)
  \/ \E w \in DOMAIN tr.workers : FallbackDone(w)
  \/ SimpleGuidanceDone
  \/ WaveDone

SpecTranslator == InitTranslator /\ [][NextTranslator]_vars

\* the same with the event loop running every continuation that is ready
SpecTranslatorFair == SpecTranslator /\ WF_vars(NextTranslator)

\* ------------------------------------------------------------------------
\* Translator: the prompt of a context batch (buildContextBatch)
\* ------------------------------------------------------------------------

\* cues.slice(from, to).map((cue, offset) => ({ index: from + offset,
\* text: cue.text })) on a list of n cues, 0 <= from
SliceLines(n, from, to) ==
  [offset \in 1..Max(0, Min(to, n) - from) |->
     [index |-> from + (offset - 1), text |-> Cue(from + (offset - 1)).text]]

\* mutant: the following context starts at the last line of the batch
buildContextBatch_FollowingOverlaps(n, startIndex, endIndex, precedingLines, followingLines) ==
  LET precedingStart == Max(0, startIndex - precedingLines)
      followingEnd   == Min(n, endIndex + followingLines)
  IN [preceding |-> SliceLines(n, precedingStart, startIndex),
      current   |-> SliceLines(n, startIndex, endIndex),
      following |-> SliceLines(n, endIndex - 1, followingEnd)]

\* buildContextBatch(cues, startIndex, endIndex, precedingLines,
\* followingLines) on a list of n cues
buildContextBatch(n, startIndex, endIndex, precedingLines, followingLines) ==
  LET precedingStart == Max(0, startIndex - precedingLines)
      followingEnd   == Min(n, endIndex + followingLines)
  IN [preceding |-> SliceLines(n, precedingStart, startIndex),
      current   |-> SliceLines(n, startIndex, endIndex),
      following |-> SliceLines(n, endIndex, followingEnd)]

\* formatBatchLines: "(none)" for no line, else one "[index] text" per line
formatBatchLines(lines) ==
  IF Len(lines) = 0 THEN <<>>
  ELSE [i \in DOMAIN lines |-> <<lines[i].index, lines[i].text>>]

\* settings of TRANSLATION_CONTEXT_PRECEDING_LINES / _FOLLOWING_LINES
ContextLineSettings == { -1, 0, 1, 2 }

\* runBatch is about to build the prompt of a batch: the ranges of every
\* cue list of up to MaxCues cues under every batch size, and the settings
\* of the context windows
ContextBatchInputs ==
  UNION { { [phase |-> "runBatch", n |-> n, range |-> range,
             precedingContextLines |-> p, followingContextLines |-> f,
             batch |-> Null, promptLines |-> Null] :
              range \in UNION { Range(Ranges(n, b)) : b \in 1..MaxCues },
              p \in ContextLineSettings, f \in ContextLineSettings } :
          n \in 0..MaxCues }

\* Math.max(0, config.translationContext.precedingContextLines)
PrecedingLines(t) == Max(0, t.precedingContextLines)

\* Math.max(0, config.translationContext.followingContextLines)
FollowingLines(t) == Max(0, t.followingContextLines)

\* runBatch builds the batch and the three line sections of its prompt
BuildPrompt ==
  /\ tr.phase = "runBatch"
  /\ LET batch == buildContextBatch(tr.n, tr.range.start, tr.range.end,
                                    PrecedingLines(tr), FollowingLines(tr))
     IN tr' = [tr EXCEPT !.phase = "prompted",
                         !.batch = batch,
                         !.promptLines =
                            [preceding |-> formatBatchLines(batch.preceding),
                             following |-> formatBatchLines(batch.following),
                             current   |-> formatBatchLines(batch.current)]]
  /\ UNCHANGED <<pipelineVars, seg>>

InitContextBatch ==
  /\ InitWith(DefaultConfig)
  /\ tr \in ContextBatchInputs
  /\ seg = Null

SpecContextBatch == InitContextBatch /\ [][BuildPrompt]_vars


\* ------------------------------------------------------------------------
\* Segmenter: mergeSubtitleCues, optimizeSubtitleTiming
\* ------------------------------------------------------------------------

\* longest list of input cues
MaxSegCues == 3

\* texts of the input cues, by what the segmenter reads of them: whether
\* the trimmed text is empty, its length, its number of words, and whether
\* its last character is sentence-ending punctuation ("", "a", "b.")
SegTexts ==
  { [empty |-> TRUE,  chars |-> 0, words |-> 0, punct |-> FALSE],
    [empty |-> FALSE, chars |-> 1, words |-> 1, punct |-> FALSE],
    [empty |-> FALSE, chars |-> 2, words |-> 1, punct |-> TRUE] }

\* an input cue by its distance from the end of the cue before it and its
\* duration, in milliseconds
CueShapes == [offset : {0, 200}, duration : {200, 2000}, text : SegTexts]

\* the cues of a list of shapes, the first one starting `prevEnd + offset`
RECURSIVE CuesFrom(_, _, _)
CuesFrom(shapes, k, prevEnd) ==
  IF k > Len(shapes) THEN <<>>
  ELSE LET st == prevEnd + shapes[k].offset
           en == st + shapes[k].duration
       IN <<[startTime |-> st, endTime |-> en, text |-> shapes[k].text]>>
          \o CuesFrom(shapes, k + 1, en)

\* the cue lists mergeSubtitleCues is called with: in time order, as the
\* events of a timedtext document are
SegCueLists ==
  { CuesFrom(sh, 1, 0) :
      sh \in UNION { [1..n -> CueShapes] : n \in 0..MaxSegCues } }

\* the options of mergeSubtitleCues; 0 switches maxChars and maxWords off
SegOptions ==
  [minDurationMs : {0, 500}, maxDurationMs : {600, 700}, gapThresholdMs : {100},
   limits : { [maxChars |-> 0, maxWords |-> 0],
              [maxChars |-> 3, maxWords |-> 0],
              [maxChars |-> 0, maxWords |-> 2] }]

\* mergeSubtitleCues(cues, options) has been called: its locals before the
\* loop. A segment's text is held as the list of the indices of the cues
\* whose texts were joined into it.
SegEntered(cues, o) ==
  [phase          |-> "loop",
   cues           |-> cues,
   opts           |-> o,
   i              |-> 1,
   merged         |-> <<>>,
   currentGroup   |-> <<>>,
   groupStartTime |-> NullInt,
   groupEndTime   |-> NullInt,
   lastEndTime    |-> NullInt,
   currentChars   |-> 0,
   currentWords   |-> 0,
   optimized      |-> <<>>,
   overlapGapMs   |-> 0,
   srv3           |-> <<>>]

\* merged.push of the open paragraph; closedBy records which push it was,
\* folded and tail whether the last paragraph was folded into the segment
\* and which cues it was made of
PushGroup(s, closedBy) ==
  Append(s.merged,
         [startTime |-> s.groupStartTime,
          endTime   |-> s.groupEndTime,
          text      |-> s.currentGroup,
          closedBy  |-> closedBy,
          folded    |-> FALSE,
          tail      |-> <<>>])

\* a new paragraph is started with cue k
StartGroup(s, k) ==
  [s EXCEPT !.groupStartTime = s.cues[k].startTime,
            !.groupEndTime = s.cues[k].endTime,
            !.currentGroup = <<k>>,
            !.currentChars = s.cues[k].text.chars,
            !.currentWords = s.cues[k].text.words,
            !.lastEndTime = s.cues[k].endTime]

\* mutant: the hard break looks at the duration only
shouldHardBreak_NoGap(durationWithCue, gap, o) ==
  durationWithCue >= o.maxDurationMs

shouldHardBreak(durationWithCue, gap, o) ==
  durationWithCue >= o.maxDurationMs \/ gap > o.gapThresholdMs

\* mutant: the soft break does not look at maxWords
shouldSoftBreak_NoWords(durationWithCue, text, chars, words, o) ==
  /\ durationWithCue >= o.minDurationMs
  /\ \/ text.punct
     \/ o.limits.maxChars > 0 /\ chars >= o.limits.maxChars

\* mutant: the soft break does not wait for minDuration
shouldSoftBreak_NoMin(durationWithCue, text, chars, words, o) ==
  \/ text.punct
  \/ o.limits.maxChars > 0 /\ chars >= o.limits.maxChars
  \/ o.limits.maxWords > 0 /\ words >= o.limits.maxWords

shouldSoftBreak(durationWithCue, text, chars, words, o) ==
  /\ durationWithCue >= o.minDurationMs
  /\ \/ text.punct
     \/ o.limits.maxChars > 0 /\ chars >= o.limits.maxChars
     \/ o.limits.maxWords > 0 /\ words >= o.limits.maxWords

\* one iteration of the loop over the cues, for cue s.i
MergeIteration(s) ==
  LET k   == s.i
      cue == s.cues[k]
      nxt == [s EXCEPT !.i = k + 1]
  IN IF cue.text.empty THEN nxt
     ELSE IF s.groupStartTime = NullInt THEN StartGroup(nxt, k)
     ELSE
       LET gap             == cue.startTime - s.lastEndTime
           durationWithCue == cue.endTime - s.groupStartTime
           charsWithCue    == s.currentChars + cue.text.chars + 1
           wordsWithCue    == s.currentWords + cue.text.words
       IN IF shouldHardBreak(durationWithCue, gap, s.opts)
          THEN StartGroup([nxt EXCEPT !.merged = PushGroup(s, "hard")], k)
          ELSE
            LET cont == [nxt EXCEPT !.groupEndTime = cue.endTime,
                                    !.currentGroup = Append(@, k),
                                    !.lastEndTime = cue.endTime,
                                    !.currentChars = charsWithCue,
                                    !.currentWords = wordsWithCue]
            IN IF shouldSoftBreak(durationWithCue, cue.text, charsWithCue,
                                  wordsWithCue, s.opts)
               THEN [cont EXCEPT !.merged = PushGroup(cont, "soft"),
                                 !.groupStartTime = NullInt,
                                 !.groupEndTime = NullInt,
                                 !.lastEndTime = NullInt,
                                 !.currentGroup = <<>>,
                                 !.currentChars = 0,
                                 !.currentWords = 0]
               ELSE cont

\* mutant: a last paragraph shorter than minDuration is dropped instead of
\* being folded into the segment before it
MergeTail_DropShort(s) ==
  IF s.currentGroup # <<>> /\ s.groupStartTime # NullInt
     /\ s.groupEndTime # NullInt
  THEN IF s.groupEndTime - s.groupStartTime < s.opts.minDurationMs
          /\ Len(s.merged) > 0
       THEN s
       ELSE [s EXCEPT !.merged = PushGroup(s, "end")]
  ELSE s

\* mutant: the last paragraph is always pushed as a segment of its own
MergeTail_NoFold(s) ==
  IF s.currentGroup # <<>> THEN [s EXCEPT !.merged = PushGroup(s, "end")]
  ELSE s

\* the code after the loop: the last paragraph is pushed, or folded into
\* the segment before it when it is shorter than minDuration
MergeTail(s) ==
  IF s.currentGroup # <<>> /\ s.groupStartTime # NullInt
     /\ s.groupEndTime # NullInt
  THEN IF s.groupEndTime - s.groupStartTime < s.opts.minDurationMs
          /\ Len(s.merged) > 0
       THEN [s EXCEPT !.merged[Len(s.merged)] =
                        [@ EXCEPT !.endTime = s.groupEndTime,
                                  !.text = @ \o s.currentGroup,
                                  !.folded = TRUE,
                                  !.tail = s.currentGroup]]
       ELSE [s EXCEPT !.merged = PushGroup(s, "end")]
  ELSE s

\* the loop of mergeSubtitleCues handles the next cue
MergeCue ==
  /\ seg.phase = "loop"
  /\ seg.i <= Len(seg.cues)
  /\ seg' = MergeIteration(seg)
  /\ UNCHANGED <<pipelineVars, tr>>

\* mergeSubtitleCues returns merged (the empty list for an empty input)
MergeReturn ==
  /\ seg.phase = "loop"
  /\ seg.i > Len(seg.cues)
  /\ seg' = [MergeTail(seg) EXCEPT !.phase = "merged"]
  /\ UNCHANGED <<pipelineVars, tr>>


\* optimizeSubtitleTiming: the shortest display time, the gap left before
\* the next cue, and the floor of a cue's duration, in milliseconds
minDisplayTime == 1000
NextCueGapMs == 100
MinimumMs == 500

\* optimizeSubtitleTiming(cues): every cue with its endTime replaced
optimizeSubtitleTiming(cues) ==
  [i \in 1..Len(cues) |->
     LET cue      == cues[i]
         extended == cue.startTime + minDisplayTime
         endTime  ==
           IF cue.endTime - cue.startTime < minDisplayTime
           THEN IF i < Len(cues) /\ extended > cues[i + 1].startTime
                THEN cues[i + 1].startTime - NextCueGapMs
                ELSE extended
           ELSE cue.endTime
     IN [cue EXCEPT !.endTime = Max(endTime, cue.startTime + MinimumMs)]]

\* processTask passes what mergeSubtitleCues returned to
\* optimizeSubtitleTiming
OptimizeTiming ==
  /\ seg.phase = "merged"
  /\ seg' = [seg EXCEPT !.phase = "optimized",
                        !.optimized = optimizeSubtitleTiming(seg.merged)]
  /\ UNCHANGED <<pipelineVars, tr>>

\* values of the option overlapGapMs of renderYouTubeSrv3
OverlapGaps == {0, 100}

\* mutant: every <p> keeps the duration of its cue
Srv3Duration_Unclamped(cues, i, overlapGapMs) ==
  cues[i].endTime - cues[i].startTime

\* attribute d of the <p> block of cue i: the cue's duration, clamped so
\* that the block ends overlapGapMs before the next cue starts
Srv3Duration(cues, i, overlapGapMs) ==
  IF i < Len(cues)
  THEN Min(cues[i].endTime - cues[i].startTime,
           cues[i + 1].startTime - overlapGapMs - cues[i].startTime)
  ELSE cues[i].endTime - cues[i].startTime

\* renderYouTubeSrv3(cues, {overlapGapMs}): the attributes t and d of the
\* <p> blocks, one per cue
renderYouTubeSrv3(cues, overlapGapMs) ==
  [i \in 1..Len(cues) |->
     [t |-> cues[i].startTime,
      d |-> Srv3Duration(cues, i, overlapGapMs),
      text |-> cues[i].text]]

\* the cues are rendered as SRV3
RenderSrv3 ==
  /\ seg.phase = "optimized"
  /\ \E g \in OverlapGaps :
       seg' = [seg EXCEPT !.phase = "rendered",
                          !.overlapGapMs = g,
                          !.srv3 = renderYouTubeSrv3(seg.optimized, g)]
  /\ UNCHANGED <<pipelineVars, tr>>

\* ------------------------------------------------------------------------
\* Segmenter: specification
\* ------------------------------------------------------------------------

\* a call of mergeSubtitleCues on any of the cue lists with any of the
\* options
InitSegmenter ==
  /\ InitWith(DefaultConfig)
  /\ tr = Null
  /\ seg \in { SegEntered(cues, o) : cues \in SegCueLists, o \in SegOptions }

NextSegmenter ==
  \/ MergeCue
  \/ MergeReturn
  \/ OptimizeTiming
  \/ RenderSrv3

SpecSegmenter == InitSegmenter /\ [][NextSegmenter]_vars


\* ------------------------------------------------------------------------
\* Helpers of the properties
\* ------------------------------------------------------------------------

\* tasks queued or being executed
ActiveTasks == Range(taskQueue) \cup running

\* the requests whose upstream fetch returned / failed
FetchedOk(r) == reqs[r].fetched # Null /\ reqs[r].fetched.ok
FetchFailed(r) == reqs[r].fetched # Null /\ ~reqs[r].fetched.ok

SameJobKey(a, b) ==
  /\ a.video_id = b.video_id
  /\ a.lang = b.lang
  /\ a.track = b.track
  /\ a.fmt = b.fmt
  /\ a.source_hash = b.source_hash


\* ------------------------------------------------------------------------
\* C1 single-flight
\* ------------------------------------------------------------------------

\* C1: requests with the same RequestKey and the same sourceHash cause one
\* translation run: no second task for that (RequestKey, sourceHash) is
\* queued or executed while one is queued or executing.
C1_SingleFlight ==
  \A t1 \in ActiveTasks : \A t2 \in ActiveTasks :
    ( /\ generateCacheKey(t1.params) = generateCacheKey(t2.params)
      /\ t1.sourceHash = t2.sourceHash )
    => t1 = t2

\* ------------------------------------------------------------------------
\* C2 cache coherence
\* ------------------------------------------------------------------------

\* C2: once processTask has completed successfully for RequestKey K, the
\* cache answers K with the output of that (the latest) translation, and
\* every request for K that arrives from then on is replied 200, HIT,
\* completed, with that output as body.
C2_CacheCoherence ==
  /\ \A k \in CacheKeys :
       lastDone[k] # Null
       => CacheAnswers(lru, jobs, k, now) = { lastDone[k] }
  /\ \A r \in ReqIds :
       reqs[r].seen # Null => reqs[r].reply = HitReply(reqs[r].seen)

\* a request arrived after a successful translation of its key and was
\* answered from the cache
C2_Witness ==
  \E r \in ReqIds :
    /\ reqs[r].seen # Null
    /\ reqs[r].pc = "replied"
    /\ reqs[r].reply.cache = "HIT"
    /\ reqs[r].reply.body = lastDone[generateCacheKey(reqs[r].params)]

\* ------------------------------------------------------------------------
\* C3 reply on a cache miss
\* ------------------------------------------------------------------------

\* C3: a cache miss whose upstream fetch succeeds is replied 200, MISS,
\* pending, with the upstream body unchanged, for every fmt.
C3_MissReturnsUpstream ==
  \A r \in ReqIds :
    (reqs[r].pc = "replied" /\ FetchedOk(r))
    => /\ reqs[r].reply.status = 200
       /\ reqs[r].reply.cache = "MISS"
       /\ reqs[r].reply.translation = "pending"
       /\ reqs[r].reply.body = reqs[r].fetched.raw


\* ------------------------------------------------------------------------
\* C4 the request path does not wait for the translation
\* ------------------------------------------------------------------------

\* C4: on a cache miss the reply is produced in the step that enqueues the
\* task, whatever becomes of the task: a request that has enqueued is
\* replied, the only thing a request ever waits for is the upstream fetch,
\* and no step that produces a reply is a step of the worker.
C4_ReplyNotBlocked ==
  /\ [](\A r \in ReqIds :
          /\ reqs[r].task # 0
             => (reqs[r].pc = "replied" /\ reqs[r].reply.status = 200)
          /\ reqs[r].pc \in {"idle", "fetching", "replied"}
          /\ reqs[r].pc = "fetching" => reqs[r].task = 0)
  /\ [][\A r \in ReqIds :
          reqs'[r].reply # reqs[r].reply
          => /\ running' = running
             /\ isProcessing' = isProcessing
             /\ lastDone' = lastDone]_vars

\* a request is replied while its task still waits in the queue
C4_Witness ==
  \E r \in ReqIds :
    /\ reqs[r].pc = "replied"
    /\ reqs[r].reply.translation = "pending"
    /\ \E t \in Range(taskQueue) : t.id = reqs[r].task

\* ------------------------------------------------------------------------
\* C5 one job row per key
\* ------------------------------------------------------------------------

\* C5: the store never holds two job rows with the same
\* (videoId, lang, track, fmt, sourceHash).
C5_UniqueJobKey ==
  \A a \in jobs : \A b \in jobs : SameJobKey(a, b) => a = b

\* the job key of the row a request asked createCaptionJob for
ReqJobKey(r) ==
  [video_id    |-> reqs[r].params.v,
   lang        |-> reqs[r].params.lang,
   track       |-> reqs[r].params.kind,
   fmt         |-> reqs[r].params.fmt,
   source_hash |-> generateSourceHash(
                     Stringify(parseTimedTextResponse(reqs[r].fetched.raw)))]

\* two requests asked for a row with the same key, and one row is there
C5_Witness ==
  \E r1 \in ReqIds : \E r2 \in ReqIds :
    /\ r1 # r2
    /\ reqs[r1].task # 0
    /\ reqs[r2].task # 0
    /\ ReqJobKey(r1) = ReqJobKey(r2)
    /\ Cardinality({ row \in jobs : SameJobKey(row, ReqJobKey(r1)) }) = 1

\* ------------------------------------------------------------------------
\* C6 job state machine
\* ------------------------------------------------------------------------

AllowedTransitions ==
  { <<"pending", "translating">>, <<"translating", "done">>,
    <<"translating", "failed">>, <<"failed", "pending">> }

\* C6: every change of a row's status is pending -> translating,
\* translating -> done, translating -> failed or failed -> pending.
C6_StateMachine ==
  [][\A a \in jobs : \A b \in jobs' :
       (a.id = b.id /\ a.status # b.status)
       => <<a.status, b.status>> \in AllowedTransitions]_vars

\* ------------------------------------------------------------------------
\* C7 retry bound
\* ------------------------------------------------------------------------

\* C7: every job row has retryCount <= maxRetries.
C7_RetryBound ==
  \A row \in jobs : row.retry_count <= cfg.maxRetries

\* ------------------------------------------------------------------------
\* C8 worker concurrency
\* ------------------------------------------------------------------------

\* C8: at most queue.concurrency jobs are being executed (status
\* translating) at any time.
C8_Concurrency ==
  /\ Cardinality(running) <= cfg.concurrency
  /\ Cardinality({ row \in jobs : row.status = "translating" })
       <= cfg.concurrency

\* the limit binds: the worker is full and a task waits
C8_Witness ==
  /\ Cardinality(running) = cfg.concurrency
  /\ Cardinality({ row \in jobs : row.status = "translating" })
       = cfg.concurrency
  /\ taskQueue # <<>>

\* ------------------------------------------------------------------------
\* C9 upstream failure
\* ------------------------------------------------------------------------

C10_CountersUnchanged ==
  [][\A r \in ReqIds :
       (~FetchFailed(r) /\ FetchFailed(r)')
       => /\ meta'.cache_hits = reqs[r].hits0
          /\ meta'.cache_misses = reqs[r].misses0]_vars

\* C10 amended: the request's cache lookup, which precedes the fetch, adds
\* exactly 1 to cache_misses and leaves cache_hits; the failing fetch and the
\* 503 reply change neither counter.
C10_MissCountedOnce ==
  [][\A r \in ReqIds :
       /\ (reqs[r].pc = "idle" /\ reqs'[r].pc = "fetching")
          => meta' = [cache_hits   |-> meta.cache_hits,
                      cache_misses |-> meta.cache_misses + 1]
       /\ (~FetchFailed(r) /\ FetchFailed(r)')
          => meta' = meta]_vars

\* a request was replied 503 and the counters stand at one more miss than
\* when it arrived
C10_Witness ==
  \E r \in ReqIds :
    /\ FetchFailed(r)
    /\ reqs[r].reply.status = 503
    /\ meta.cache_hits = reqs[r].hits0
    /\ meta.cache_misses = reqs[r].misses0 + 1

\* ------------------------------------------------------------------------
\* C11 a failed translation is not visible to clients
\* ------------------------------------------------------------------------

\* errors a reply can carry that do not come from a translation
RequestErrors == { "", "invalid_video_id", "invalid_language",
                   "youtube_api_error" }

\* C11: no reply carries a failed translation status or an error caused by a
\* translation failure, and a request that arrives after the translation of
\* its RequestKey has failed, and whose upstream fetch succeeds, is replied
\* 200, MISS, pending, with the original subtitle as body.
C11_FailureInvisible ==
  \A r \in ReqIds :
    /\ reqs[r].reply.translation \in { "", "pending", "completed" }
    /\ reqs[r].reply.error \in RequestErrors
    /\ (reqs[r].sawFailed /\ reqs[r].pc = "replied" /\ FetchedOk(r))
       => /\ reqs[r].reply.status = 200
          /\ reqs[r].reply.cache = "MISS"
          /\ reqs[r].reply.translation = "pending"
          /\ reqs[r].reply.body = reqs[r].fetched.raw

\* ------------------------------------------------------------------------
\* C12 input validation
\* ------------------------------------------------------------------------

\* v is not exactly 11 characters of [A-Za-z0-9_-]
MalformedVideoId(v) ==
  \/ Len(v) # 11
  \/ \E i \in 1..Len(v) : v[i] \notin IdChars

\* lang is missing or longer than 10 characters
MalformedLang(l) == l = "" \/ Len(l) > 10

\* C12: the step that receives a request with a malformed v replies 400
\* invalid_video_id; otherwise, with a missing or too long lang, it replies 400
\* invalid_language; in both cases the step performs no cache lookup (LRU
\* and counters unchanged), starts no upstream fetch, and changes no job row
\* and no queue. A well-formed request is never replied 400.
C12_Validation ==
  [][\A r \in ReqIds :
       (reqs[r].pc = "idle" /\ reqs'[r].pc # "idle")
       => LET p        == reqs'[r].params
              rejected == /\ reqs'[r].pc = "replied"
                          /\ reqs'[r].fetched = Null
                          /\ reqs'[r].task = 0
                          /\ UNCHANGED <<lru, meta, jobs, taskQueue, running,
                                         isProcessing, workerInterval>>
          IN /\ MalformedVideoId(p.v)
                => /\ reqs'[r].reply = ErrorReply(400, "invalid_video_id")
                   /\ rejected
             /\ (~MalformedVideoId(p.v) /\ MalformedLang(p.lang))
                => /\ reqs'[r].reply = ErrorReply(400, "invalid_language")
                   /\ rejected
             /\ (~MalformedVideoId(p.v) /\ ~MalformedLang(p.lang))
                => reqs'[r].reply.status # 400]_vars

\* an id of 11 characters with one outside the class and a language code of
\* 11 characters have both been refused, and nothing was counted or stored
C12_Witness ==
  /\ \E r \in ReqIds :
       /\ reqs[r].reply = ErrorReply(400, "invalid_video_id")
       /\ Len(reqs[r].params.v) = 11
  /\ \E r \in ReqIds :
       /\ reqs[r].reply = ErrorReply(400, "invalid_language")
       /\ Len(reqs[r].params.lang) = 11
  /\ meta = [cache_hits |-> 0, cache_misses |-> 0]
  /\ jobs = {}
  /\ taskQueue = <<>>

\* ------------------------------------------------------------------------
\* C13 the LRU is backed by the store
\* ------------------------------------------------------------------------

\* a row of the RequestKey (the table has no column for the target language)
RowOfKey(row, k) ==
  /\ row.video_id = k[1]
  /\ row.lang = k[2]
  /\ row.track = k[4]
  /\ row.fmt = k[5]

\* C13: every key the LRU holds (and has not let expire) has a row of that
\* RequestKey in the store with status done and expiresAt >= now.
C13_LruBacked ==
  \A k \in CacheKeys :
    LruGet(lru, k, now) # Null
    => \E row \in jobs : /\ RowOfKey(row, k)
                         /\ row.status = "done"
                         /\ row.expires_at >= now

\* ------------------------------------------------------------------------
\* C14 a done row carries its output
\* ------------------------------------------------------------------------

\* C14: every job row with status done has a non-empty bilingual value.
C14_DoneHasBilingual ==
  \A row \in jobs :
    row.status = "done"
    => /\ row.bilingual_json # Null
       /\ row.bilingual_json.fmt = "webvtt"

\* two enqueues met on one row, and the row is done with its output
C14_Witness ==
  \E row \in jobs :
    /\ row.status = "done"
    /\ row.bilingual_json # Null
    /\ \E r1 \in ReqIds : \E r2 \in ReqIds :
         /\ r1 # r2
         /\ reqs[r1].task # 0
         /\ reqs[r2].task # 0
         /\ SameJobKey(row, ReqJobKey(r1))
         /\ SameJobKey(row, ReqJobKey(r2))

\* ------------------------------------------------------------------------
\* C15 isolation of the cache keys
\* ------------------------------------------------------------------------

\* the RequestKey of the task that produced a bilingual output
ProducedFor(content) == generateCacheKey(reqs[content.by].params)

\* C15: a request answered from the cache receives an output that was
\* produced for its own RequestKey (video, source language, target language,
\* track, format), and two requests with equal RequestKey that are both
\* answered from the cache receive equal output.
C15_KeyIsolation ==
  /\ \A r \in ReqIds :
       reqs[r].reply.cache = "HIT"
       => ProducedFor(reqs[r].reply.body) = generateCacheKey(reqs[r].params)
  /\ \A r1 \in ReqIds : \A r2 \in ReqIds :
       ( /\ reqs[r1].reply.cache = "HIT"
         /\ reqs[r2].reply.cache = "HIT"
         /\ generateCacheKey(reqs[r1].params) = generateCacheKey(reqs[r2].params) )
       => reqs[r1].reply.body = reqs[r2].reply.body

\* ------------------------------------------------------------------------
\* C16 hit and miss counters
\* ------------------------------------------------------------------------

\* the requests for which getBilingualSubtitle has been called
Lookups ==
  { r \in ReqIds : reqs[r].pc # "idle" /\ reqs[r].reply.status # 400 }

\* C16: cache_hits + cache_misses is the number of lookups performed; the
\* step of a lookup adds exactly 1 to cache_hits and nothing to cache_misses
\* when it returns content (after which the LRU holds that content under
\* the looked-up key), and exactly 1 to cache_misses and nothing to
\* cache_hits when it returns nothing; no other step changes a counter.
C16_Counters ==
  /\ [](meta.cache_hits + meta.cache_misses = Cardinality(Lookups))
  /\ [][IF Lookups' = Lookups
        THEN meta' = meta
        ELSE \A r \in Lookups' \ Lookups :
               LET key == generateCacheKey(reqs'[r].params)
               IN IF reqs'[r].reply.cache = "HIT"
                  THEN /\ meta'.cache_hits = meta.cache_hits + 1
                       /\ meta'.cache_misses = meta.cache_misses
                       /\ LruGet(lru', key, now') = reqs'[r].reply.body
                  ELSE /\ reqs'[r].pc = "fetching"
                       /\ meta'.cache_hits = meta.cache_hits
                       /\ meta'.cache_misses = meta.cache_misses + 1
                       /\ lru' = lru]_vars

\* after a restart emptied the LRU, a request was answered from the store
\* and its content is in the LRU again; one miss and one hit are counted
C16_Witness ==
  /\ meta = [cache_hits |-> 1, cache_misses |-> 1]
  /\ workerInterval = FALSE
  /\ \E r \in ReqIds :
       /\ reqs[r].reply.cache = "HIT"
       /\ LruGet(lru, generateCacheKey(reqs[r].params), now)
            = reqs[r].reply.body
       /\ lru[generateCacheKey(reqs[reqs[r].reply.body.by].params)] # Null

\* ------------------------------------------------------------------------
\* C17 order of the translated cues
\* ------------------------------------------------------------------------

\* translateBatchWithContext has returned to translateToBilingual
ContextReturned == tr.phase = "returned" /\ tr.path = "context"

\* C17: when translateBatchWithContext returns, its output has one cue per
\* input cue and the cue at position i carries the translation of cue i (or,
\* where the fallback call for the line failed, the text of cue i), in
\* whatever order the batches completed, were retried or fell back.
C17_OrderPreserved ==
  ContextReturned
  => /\ DOMAIN tr.translatedCues = Indices(tr.n)
     /\ \A i \in Indices(tr.n) : tr.translatedCues[i].text.cue = i

\* the output was assembled from batches that completed out of order, one
\* of them on its second attempt and one through the per-line fallback
C17_Witness ==
  /\ ContextReturned
  /\ \E a \in DOMAIN tr.completed : \E b \in DOMAIN tr.completed :
       a < b /\ tr.completed[a] > tr.completed[b]
  /\ tr.fellBack # {}
  /\ \E i \in Indices(tr.n) :
       /\ tr.translatedCues[i].text.kind = "translation"
       /\ tr.translatedCues[i].text.via = "batch"
       /\ tr.translatedCues[i].text.attempt = 1

\* ------------------------------------------------------------------------
\* C18 the per-line fallback
\* ------------------------------------------------------------------------

\* the batch (position in ranges) worker w is working on
BatchOf(w) == Ranges(tr.n, BatchSize(tr.tcfg))[tr.workers[w].range]

\* C18: a batch whose last allowed attempt fails is handed to the per-line
\* fallback and nothing is thrown: once the pool has started,
\* translateBatchWithContext is never left by an exception; and when it
\* returns, every cue has a non-empty translation text, which for the cues
\* of a batch that fell back is the single-line translation of the cue or
\* the cue's original text.
C18_FallbackNeverAborts ==
  /\ [](tr.tookOver => tr.workers = <<>>)
  /\ [](ContextReturned
        => \A k \in DOMAIN Ranges(tr.n, BatchSize(tr.tcfg)) :
             LET range == Ranges(tr.n, BatchSize(tr.tcfg))[k]
             IN \A i \in range.start..(range.end - 1) :
                  /\ tr.translatedCues[i].text # Null
                  /\ range.batchIndex \in tr.fellBack
                     => tr.translatedCues[i].text
                          \in { Translation(i, "line", 0), OriginalText(i) })
  /\ [][\A w \in DOMAIN tr.workers :
          ( /\ tr.workers[w].pc = "calling"
            /\ tr.workers[w].attempt >= Max(0, tr.tcfg.batchRetries)
            /\ tr'.workers # <<>>
            /\ tr'.workers[w] # tr.workers[w]
            /\ tr'.completed = tr.completed )
          => /\ tr'.workers[w].pc = "fallback"
             /\ BatchOf(w).batchIndex \in tr'.fellBack]_vars

\* every batch failed on every attempt and fell back; one line got its
\* single-line translation, another kept its original text
C18_Witness ==
  /\ ContextReturned
  /\ tr.n = MaxCues
  /\ tr.fellBack = { Ranges(tr.n, BatchSize(tr.tcfg))[k].batchIndex :
                       k \in DOMAIN Ranges(tr.n, BatchSize(tr.tcfg)) }
  /\ \E i \in Indices(tr.n) :
       tr.translatedCues[i].text = Translation(i, "line", 0)
  /\ \E i \in Indices(tr.n) :
       tr.translatedCues[i].text = OriginalText(i)

\* ------------------------------------------------------------------------
\* C19 guidance failures
\* ------------------------------------------------------------------------

GuidanceFailure == tr.summaryFailed \/ tr.glossaryFailed

\* C19: when the summary call or the glossary call fails, the translation
\* still returns, with a text for every cue; no translation prompt carries
\* the guidance that failed, and every translation prompt carries the
\* guidance that succeeded.
C19_GuidanceFailureNonFatal ==
  /\ [](\A p \in tr.prompts :
         /\ tr.summaryFailed => p.summary = Null
         /\ tr.glossaryFailed => p.glossary = Null
         /\ tr.tcfg.summaryEnabled /\ ~tr.summaryFailed
            => p.summary = SummaryText
         /\ tr.tcfg.glossaryEnabled /\ ~tr.glossaryFailed
            => p.glossary = GlossaryText)
  /\ [](GuidanceFailure /\ tr.phase = "returned"
        => /\ DOMAIN tr.translatedCues = Indices(tr.n)
           /\ \A i \in Indices(tr.n) : tr.translatedCues[i].text # Null)
  /\ (GuidanceFailure ~> tr.phase = "returned")

\* the summary failed and the glossary succeeded; batch prompts and
\* single-line prompts were sent, and the translation returned
C19_Witness ==
  /\ tr.phase = "returned"
  /\ tr.n = MaxCues
  /\ tr.summaryFailed /\ ~tr.glossaryFailed
  /\ tr.glossary = GlossaryText
  /\ \E p \in tr.prompts : p.call = "batch"
  /\ \E p \in tr.prompts : p.call = "line"

\* ------------------------------------------------------------------------
\* C20 the bilingual cues
\* ------------------------------------------------------------------------

\* the texts translateBatchWithContext or translateBatch can give cue i
TranslationsOf(i) ==
  { Translation(i, via, attempt) :
      via \in {"batch", "line"}, attempt \in 0..Max(0, tr.tcfg.batchRetries) }
  \cup { OriginalText(i) }

\* C20: translateToBilingual returns one cue per input cue, in input order,
\* each with the start and end time of the input cue and with the text
\* made of the original text, a newline and the text translated for that
\* cue -- whichever of the context path, the simple path or the simple path
\* after a failed context path produced the translation.
C20_Bilingual ==
  tr.phase = "returned"
  => /\ DOMAIN tr.out = 0..(tr.n - 1)
     /\ \A i \in 0..(tr.n - 1) :
          /\ tr.out[i].startTime = Cue(i).startTime
          /\ tr.out[i].endTime = Cue(i).endTime
          /\ Len(tr.out[i].text) = 2
          /\ tr.out[i].text[1] = OriginalText(i)
          /\ tr.out[i].text[2] \in TranslationsOf(i)

\* the context path failed and the simple path took over and translated
\* every cue
C20_Witness ==
  /\ tr.phase = "returned"
  /\ tr.tookOver
  /\ tr.n = MaxCues
  /\ \A i \in Indices(tr.n) :
       tr.out[i].text = <<OriginalText(i), Translation(i, "line", 0)>>

\* the same on the context path and on the simple path entered directly
C20_ContextPath ==
  /\ ContextReturned
  /\ tr.n = MaxCues
  /\ \A i \in Indices(tr.n) :
       tr.out[i].text = <<OriginalText(i), Translation(i, "batch", 0)>>

C20_SimplePath ==
  /\ tr.phase = "returned"
  /\ tr.path = "simple"
  /\ ~tr.tookOver
  /\ tr.n = MaxCues
  /\ \E i \in Indices(tr.n) :
       tr.out[i].text = <<OriginalText(i), Translation(i, "line", 0)>>

\* ------------------------------------------------------------------------
\* C21 durations of the segments
\* ------------------------------------------------------------------------

SegDuration(sg) == sg.endTime - sg.startTime

MergeReturned == seg.phase = "merged"

ConsecutiveCues(p, q) ==
  /\ p \in DOMAIN seg.cues /\ q \in DOMAIN seg.cues /\ p < q
  /\ ~seg.cues[p].text.empty /\ ~seg.cues[q].text.empty
  /\ \A k \in (p + 1)..(q - 1) : seg.cues[k].text.empty

\* the position in the output of the segment that holds input cue k
SegmentOf(k) ==
  CHOOSE j \in DOMAIN seg.merged : k \in Range(seg.merged[j].text)

\* the gap before q is too long, or q would stretch the segment of p to
\* maxDurationMs or more
MustBreak(p, q) ==
  \/ seg.cues[q].startTime - seg.cues[p].endTime > seg.opts.gapThresholdMs
  \/ seg.cues[q].endTime - seg.merged[SegmentOf(p)].startTime
       >= seg.opts.maxDurationMs

\* C22 as stated: two consecutive non-empty cues are in different segments
\* when the gap between them exceeds gapThresholdMs or when the later cue
\* would bring the segment to maxDurationMs or more.
C22_HardBreaks ==
  MergeReturned
  => \A p \in DOMAIN seg.cues : \A q \in DOMAIN seg.cues :
       ConsecutiveCues(p, q) /\ MustBreak(p, q)
       => SegmentOf(p) # SegmentOf(q)

\* C22 amended: the same, except for the cues of a last paragraph shorter
\* than minDurationMs, which is folded into the segment before it whatever
\* the gap and the duration; within that paragraph no gap exceeds
\* gapThresholdMs and the paragraph itself stays below maxDurationMs.
C22_HardBreaksAmended ==
  MergeReturned
  => \A p \in DOMAIN seg.cues : \A q \in DOMAIN seg.cues :
       ConsecutiveCues(p, q)
       => LET sg == seg.merged[SegmentOf(q)]
          IN /\ MustBreak(p, q) /\ SegmentOf(p) = SegmentOf(q)
                => /\ sg.folded
                   /\ q \in Range(sg.tail)
             /\ p \in Range(sg.tail) /\ q \in Range(sg.tail)
                => /\ seg.cues[q].startTime - seg.cues[p].endTime
                        <= seg.opts.gapThresholdMs
                   /\ seg.cues[q].endTime - seg.cues[sg.tail[1]].startTime
                        < seg.opts.maxDurationMs

\* a gap separates the first two cues and the maximum duration the last
\* two; nothing was folded
C22_Witness ==
  /\ MergeReturned
  /\ Len(seg.cues) = 3
  /\ \A k \in DOMAIN seg.cues : ~seg.cues[k].text.empty
  /\ seg.cues[2].startTime - seg.cues[1].endTime > seg.opts.gapThresholdMs
  /\ seg.cues[3].startTime - seg.cues[2].endTime <= seg.opts.gapThresholdMs
  /\ seg.cues[3].endTime - seg.cues[2].startTime >= seg.opts.maxDurationMs
  /\ Len(seg.merged) = 3
  /\ \A j \in DOMAIN seg.merged : ~seg.merged[j].folded

\* the last paragraph was folded into its predecessor across a gap
C22_FoldedAcrossGap ==
  /\ MergeReturned
  /\ \E j \in DOMAIN seg.merged :
       /\ seg.merged[j].folded
       /\ \E p \in Range(seg.merged[j].text) :
            /\ ConsecutiveCues(p, seg.merged[j].tail[1])
            /\ seg.cues[seg.merged[j].tail[1]].startTime - seg.cues[p].endTime
                 > seg.opts.gapThresholdMs

\* ------------------------------------------------------------------------
\* C23 SRV3 blocks do not overlap
\* ------------------------------------------------------------------------

Srv3Rendered == seg.phase = "rendered"

\* the cues of the renderer's test: 0-5000 and 3000-8000
OverlappingPair ==
  << [startTime |-> 0, endTime |-> 5000, text |-> "First line"],
     [startTime |-> 3000, endTime |-> 8000, text |-> "Second line"] >>

RowDoneWith(J, task, webvtt) ==
  \E row \in J : /\ Conflict(row, JobParams(task))
                  /\ row.status = "done"
                  /\ row.bilingual_json = webvtt

\* C24: whenever processTask completes successfully for a task, the row of
\* the task's (videoId, lang, track, fmt, sourceHash) is done afterwards
\* and holds the rendered WebVTT, whether or not the row existed before the
\* task was enqueued.
C24_SuccessMarksDone ==
  [][\A task \in running :
       TaskSucceed(task) => RowDoneWith(jobs', task, renderWebVTT(task))]_vars

\* ------------------------------------------------------------------------
\* C25 duplicate job creation
\* ------------------------------------------------------------------------

\* the fields of a job row that belong to the worker
WorkerFields(row) ==
  [status         |-> row.status,
   bilingual_json |-> row.bilingual_json,
   error_code     |-> row.error_code,
   retry_count    |-> row.retry_count,
   next_retry_at  |-> row.next_retry_at]

\* C25: when enqueueTranslation calls createCaptionJob for a key that has
\* a row already, the row keeps its status, bilingual, error, retryCount
\* and nextRetryAt: only processTask changes those fields.
C25_DuplicateCreateHarmless ==
  [][(\E r \in ReqIds : FetchOk(r))
     => \A row \in jobs :
          \E after \in jobs' :
            /\ SameJobKey(row, after)
            /\ WorkerFields(after) = WorkerFields(row)]_vars

\* ------------------------------------------------------------------------
\* C26 failed jobs are retried
\* ------------------------------------------------------------------------

\* rows whose last attempt failed, that have retries left and whose
\* nextRetryAt has passed
DueForRetry ==
  { row \in getPendingJobs(jobs, now, cfg) :
      row.retry_count > 0 /\ row.next_retry_at # NullInt }

\* the worker's timer is running and nothing is queued or being executed
WorkerIdle ==
  /\ workerInterval
  /\ ~isProcessing
  /\ taskQueue = <<>>
  /\ running = {}

\* C26: a job that failed with retries left is attempted again by the
\* worker once nextRetryAt has passed, without a new client request being
\* needed: whenever such a row is due and the worker is idle, the next tick
\* of the worker has something to do (it picks the row).
C26_FailedJobRetried ==
  (WorkerIdle /\ DueForRetry # {}) => ENABLED <<WorkerTick>>_vars

\* ------------------------------------------------------------------------
\* C27 backoff is respected
\* ------------------------------------------------------------------------

\* the rows of the key of `task` whose last recorded attempt failed
FailedRowsOf(task) ==
  { row \in jobs : /\ Conflict(row, JobParams(task))
                   /\ row.error_code = "translation_error"
                   /\ row.next_retry_at # NullInt }

\* C27: no translation attempt for a (RequestKey, sourceHash) whose previous
\* attempt failed starts before the nextRetryAt of its row, also when a new
\* client request for the same key arrived in between.
C27_BackoffRespected ==
  [][\A task \in running' \ running :
       \A row \in FailedRowsOf(task) : row.next_retry_at <= now]_vars

\* ------------------------------------------------------------------------
\* C28 failure path
\* ------------------------------------------------------------------------

\* `after` is `row` with one more failure recorded at time t
FailureRecorded(row, after, t, c) ==
  /\ SameJobKey(row, after)
  /\ after.retry_count = row.retry_count + 1
  /\ after.next_retry_at =
       t + (c.retryBaseMs \div MsPerSecond) * Pow2(row.retry_count)
  /\ after.error_code = "translation_error"

\* C28: when the attempt of a job fails while its row has retryCount = k,
\* the row afterwards has retryCount = k + 1, nextRetryAt = now +
\* retryBaseMs * 2^k, errorCode translation_error, and its status is back
\* to pending.
C28_FailurePath ==
  [][\A task \in running :
       TaskFail(task) =>
         \A row \in jobs :
           Conflict(row, JobParams(task)) =>
             \E after \in jobs' : /\ FailureRecorded(row, after, now, cfg)
                                  /\ after.status = "pending"]_vars

\* the same without the status: the counters and the error of the failure
\* path alone
C28_FailureCounters ==
  [][\A task \in running :
       TaskFail(task) =>
         \A row \in jobs :
           Conflict(row, JobParams(task)) =>
             \E after \in jobs' : FailureRecorded(row, after, now, cfg)]_vars

\* ------------------------------------------------------------------------
\* C29 nextRetryAt
\* ------------------------------------------------------------------------

\* the last attempt recorded on the row failed and another attempt remains
RetryRemains(row) ==
  /\ row.error_code = "translation_error"
  /\ row.retry_count < cfg.maxRetries

\* C29: in every reachable state the nextRetryAt of a job row is set if and
\* only if the last attempt of the row failed and another attempt remains
\* (retryCount < maxRetries): it is not set on a row that never failed, whose
\* last attempt succeeded, or that has exhausted its retries.
C29_NextRetryAtSet ==
  \A row \in jobs : (row.next_retry_at # NullInt) <=> RetryRemains(row)

\* ------------------------------------------------------------------------
\* C30 restart recovery
\* ------------------------------------------------------------------------

\* the process has just started: nothing in the LRU, nothing queued, nothing
\* being executed
FreshStart ==
  /\ \A k \in CacheKeys : lru[k] = Null
  /\ taskQueue = <<>>
  /\ running = {}

\* the rows of the RequestKey of `p` that a shutdown left unfinished
UnfinishedRows(p) ==
  { row \in jobs : /\ row.video_id = p.v
                   /\ row.lang = p.lang
                   /\ row.track = p.kind
                   /\ row.fmt = p.fmt
                   /\ row.status \in {"translating", "pending"} }

\* no task of the job key of `row` is queued or being executed
Abandoned(row) ==
  \A task \in ActiveTasks : ~Conflict(row, JobParams(task))

\* C30: after a shutdown that left a job row translating (or pending) and a
\* restart with an empty LRU and an empty queue, the next request with the
\* matching RequestKey observes no done row (cache MISS, the upstream is
\* fetched and the original returned); with the upstream unchanged it
\* enqueues a new task for the key, and the store still holds exactly one
\* row for the key.
C30_RestartRecovery ==
  /\ [][\A r \in Lookups' \ Lookups :
          (FreshStart /\ UnfinishedRows(reqs'[r].params) # {})
          => /\ reqs'[r].pc = "fetching"
             /\ reqs'[r].reply.cache # "HIT"]_vars
  /\ [][\A r \in ReqIds :
          FetchOk(r) =>
            \A row \in UnfinishedRows(reqs[r].params) :
              (Abandoned(row) /\ SameJobKey(row, ReqJobKey(r)'))
              => /\ \E task \in Range(taskQueue') :
                      task.id = r /\ Conflict(row, JobParams(task))
                 /\ reqs'[r].reply = MissReply(reqs[r].params,
                                               parseTimedTextResponse(
                                                 reqs'[r].fetched.raw))
                 /\ Cardinality({ after \in jobs' :
                                    SameJobKey(after, row) }) = 1]_vars

\* a row that a shutdown left unfinished met the task of a later request:
\* the request was replied MISS, its task is queued, and the row of the
\* earlier task is the only one of its key
C30_Witness ==
  \E r \in ReqIds : \E row \in jobs :
    /\ reqs[r].pc = "replied"
    /\ reqs[r].task = r
    /\ reqs[r].reply.cache = "MISS"
    /\ row.id # r
    /\ row.status = "pending"
    /\ row.retry_count = 0
    /\ SameJobKey(row, ReqJobKey(r))
    /\ \A task \in ActiveTasks : task.id = r
    /\ ActiveTasks # {}
    /\ Cardinality({ other \in jobs : SameJobKey(other, row) }) = 1

\* ------------------------------------------------------------------------
\* C31 queue liveness
\* ------------------------------------------------------------------------

\* nothing is left to do: no handler is suspended in the upstream fetch,
\* nothing is queued, nothing is being executed
Quiescent ==
  /\ \A r \in ReqIds : reqs[r].pc # "fetching"
  /\ taskQueue = <<>>
  /\ running = {}

\* C31: every task put on the queue is eventually taken and processed to
\* completion, and no job row stays pending or translating forever: once
\* every task that was enqueued has been processed, no row of the store is
\* pending or translating.
C31_QueueLiveness ==
  Quiescent => \A row \in jobs : row.status \notin {"pending", "translating"}

\* ------------------------------------------------------------------------
\* C32 expired content is not served
\* ------------------------------------------------------------------------

\* the done rows holding `content` whose expiresAt has passed at time t
ExpiredRowsWith(content, t) ==
  { row \in jobs : /\ row.status = "done"
                   /\ row.bilingual_json = content
                   /\ row.expires_at < t }

\* C32: a cache hit never returns the content of a job row whose
\* expiresAt < now, whether or not cleanupExpiredJobs has already run.
C32_ExpiredNotServed ==
  [][\A r \in Lookups' \ Lookups :
       reqs'[r].reply.cache = "HIT"
       => ExpiredRowsWith(reqs'[r].reply.body, now) = {}]_vars

\* ------------------------------------------------------------------------
\* C33 cleanup
\* ------------------------------------------------------------------------

\* C33: cleanupExpiredJobs deletes exactly the job rows with
\* expiresAt < now, leaves every other row (all of its fields) and the
\* metadata counters unchanged, and returns the number of rows deleted.
C33_CleanupExact ==
  [][Cleanup =>
       /\ jobs' \subseteq jobs
       /\ \A row \in jobs : (row \in jobs') <=> (row.expires_at >= now)
       /\ meta' = meta
       /\ deletedCount(jobs, now) = Cardinality(jobs \ jobs')]_vars

\* a cleanup has fired on a store holding an expired completed job beside a
\* row that expires exactly now: the first is gone, the second is still there
C33_Witness ==
  /\ \E k \in CacheKeys :
       /\ lastDone[k] # Null
       /\ \A row \in jobs : row.bilingual_json # lastDone[k]
  /\ \E row \in jobs : row.expires_at = now

\* ------------------------------------------------------------------------
\* C34 acceptance of a context batch
\* ------------------------------------------------------------------------

\* the ranges of the run whose batch was accepted (completed without the
\* per-line fallback)
AcceptedRanges ==
  { range \in Range(Ranges(tr.n, BatchSize(tr.tcfg))) :
      /\ range.batchIndex \in Range(tr.completed)
      /\ range.batchIndex \notin tr.fellBack }

\* C34: a context-batch attempt is accepted only if its own response gives
\* every index of the batch exactly once; acceptance depends on the
\* attempt's own response only, so the texts of an accepted batch all come
\* from the response of one attempt, and no text of a rejected response is
\* in the output.
C34_OwnResponseOnly ==
  \A range \in AcceptedRanges :
    \E attempt \in 0..BatchRetries(tr.tcfg) :
      \A id \in range.start..(range.end - 1) :
        tr.translatedTexts[id] = Translation(id, "batch", attempt)

\* ------------------------------------------------------------------------
\* C35 attempts and fallback of a batch
\* ------------------------------------------------------------------------

\* the single-line prompts made in a step
NewLinePrompts == { p \in tr'.prompts \ tr.prompts : p.call = "line" }

\* C35: for each batch runBatch makes at most batchRetries + 1
\* context-aware calls and stops at the first accepted one; the per-line
\* fallback of the batch runs exactly once if and only if all
\* batchRetries + 1 attempts failed, covers only the cue indices of that
\* batch, and never runs for a batch that had an accepted attempt.
C35_AttemptsAndFallback ==
  [][\A w \in DOMAIN tr.workers :
       LET range   == BatchOf(w)
           lines   == range.start..(range.end - 1)
           retries == Max(0, tr.tcfg.batchRetries)
       IN /\ BatchResponse(w) =>
               /\ tr.workers[w].attempt <= retries
               /\ range.batchIndex \notin Range(tr.completed) \cup tr.fellBack
               /\ IF range.batchIndex \in Range(tr'.completed)
                  THEN \* accepted: no further call, no fallback
                       /\ tr'.fellBack = tr.fellBack
                       /\ NewLinePrompts = {}
                       /\ tr'.workers[w].pc = "done"
                            \/ tr'.workers[w].range # tr.workers[w].range
                  ELSE IF tr.workers[w].attempt >= retries
                  THEN \* the last attempt failed: the fallback starts
                       /\ tr'.workers[w].pc = "fallback"
                       /\ tr'.fellBack = tr.fellBack \cup {range.batchIndex}
                       /\ { p.cue : p \in NewLinePrompts } = lines
                  ELSE \* retried
                       /\ tr'.workers[w].pc = "calling"
                       /\ tr'.workers[w].range = tr.workers[w].range
                       /\ tr'.workers[w].attempt = tr.workers[w].attempt + 1
                       /\ tr'.fellBack = tr.fellBack
                       /\ NewLinePrompts = {}
          /\ FallbackDone(w) =>
               /\ range.batchIndex \in tr.fellBack
               /\ range.batchIndex \notin Range(tr.completed)
               /\ range.batchIndex \in Range(tr'.completed)
               /\ tr'.fellBack = tr.fellBack
               /\ \A i \in Indices(tr.n) \ lines :
                    tr'.translatedTexts[i] = tr.translatedTexts[i]]_vars

\* with one retry allowed, the first batch failed twice and fell back, and
\* the second batch was accepted at its second attempt without fallback
C35_Witness ==
  /\ ContextReturned
  /\ tr.n = MaxCues
  /\ Max(0, tr.tcfg.batchRetries) = 1
  /\ tr.fellBack = {1}
  /\ Len(tr.completed) > 1
  /\ \E i \in Indices(tr.n) : tr.translatedCues[i].text.kind = "translation"
                               /\ tr.translatedCues[i].text.via = "batch"
                               /\ tr.translatedCues[i].text.attempt = 1

\* ------------------------------------------------------------------------
\* C36 dispatch of the batches
\* ------------------------------------------------------------------------

\* the pool workers that are inside runBatch
InFlight ==
  { w \in DOMAIN tr.workers : tr.workers[w].pc \in {"calling", "fallback"} }

\* the positions in ranges that have been handed to a worker so far
Dispatched ==
  { tr.workers[w].range : w \in InFlight } \cup Range(tr.completed)

\* C36: inside one run of translateBatchWithContext every batch range is
\* dispatched to exactly one pool worker exactly once, the batches partition
\* the cue indices 0..n-1 into contiguous ranges of batchSize (the last one
\* possibly shorter), and at most
\* max(1, min(translationContext.concurrency, number of batches)) batches
\* are in flight at any time.
C36_Dispatch ==
  (tr.phase \in {"context", "returned"} /\ tr.path = "context") =>
    LET size   == Max(1, tr.tcfg.batchSize)
        ranges == Ranges(tr.n, BatchSize(tr.tcfg))
        total  == Len(ranges)
    IN /\ \* the partition
          /\ tr.n > 0 => (ranges[1].start = 0 /\ ranges[total].end = tr.n)
          /\ tr.n = 0 => total = 0
          /\ \A k \in 1..total :
               /\ ranges[k].start < ranges[k].end
               /\ ranges[k].end - ranges[k].start <= size
               /\ k < total => /\ ranges[k].end - ranges[k].start = size
                               /\ ranges[k + 1].start = ranges[k].end
       /\ \* one worker, once
          /\ \A w1 \in InFlight : \A w2 \in InFlight :
               tr.workers[w1].range = tr.workers[w2].range => w1 = w2
          /\ \A w \in InFlight : tr.workers[w].range \notin Range(tr.completed)
          /\ Cardinality(Range(tr.completed)) = Len(tr.completed)
          /\ Dispatched = 1..Min(tr.nextRangeIndex, total)
          /\ tr.phase = "returned" => Range(tr.completed) = 1..total
       /\ \* the bound of the pool
          Cardinality(InFlight)
            <= Max(1, Min(tr.tcfg.concurrency, Max(1, total)))

\* three batches of one cue under concurrency 2: one batch is completed and
\* two others are in flight on two workers
C36_Witness ==
  /\ tr.phase = "context"
  /\ tr.n = MaxCues
  /\ Len(Ranges(tr.n, BatchSize(tr.tcfg))) = MaxCues
  /\ Len(tr.completed) = 1
  /\ Cardinality(InFlight) = 2
  /\ tr.nextRangeIndex = 3

\* ------------------------------------------------------------------------
\* C37 context windows of a batch
\* ------------------------------------------------------------------------

\* the lines "[i] text of cue i" for i = from .. to - 1
TaggedLines(from, to) ==
  [k \in 1..(to - from) |-> <<from + k - 1, OriginalText(from + k - 1)>>]

\* C37: for the batch covering the cues [s, e) of n cues with P preceding
\* and F following context lines, the preceding context of the prompt is
\* exactly the original texts of the cues max(0, s-P) .. s-1, the following
\* context exactly those of the cues e .. min(n, e+F)-1, and the current
\* batch exactly the cues s .. e-1, every line tagged with its absolute
\* index; the windows never overlap the current batch.
C37_ContextWindows ==
  tr.phase = "prompted" =>
    LET s == tr.range.start
        e == tr.range.end
        P == Max(0, tr.precedingContextLines)
        F == Max(0, tr.followingContextLines)
        indexOf(lines) == { lines[i][1] : i \in DOMAIN lines }
    IN /\ tr.promptLines.preceding = TaggedLines(Max(0, s - P), s)
       /\ tr.promptLines.following = TaggedLines(e, Min(tr.n, e + F))
       /\ tr.promptLines.current = TaggedLines(s, e)
       /\ indexOf(tr.promptLines.preceding)
            \cap indexOf(tr.promptLines.current) = {}
       /\ indexOf(tr.promptLines.following)
            \cap indexOf(tr.promptLines.current) = {}

\* the prompt of a middle batch with a line before and a line after it, and
\* windows that reach beyond both ends of the cue list
C37_Witness ==
  /\ tr.phase = "prompted"
  /\ tr.n = MaxCues
  /\ tr.range.start > 0
  /\ tr.range.end < tr.n
  /\ tr.precedingContextLines > tr.range.start
  /\ tr.followingContextLines > tr.n - tr.range.end
  /\ Len(tr.promptLines.preceding) = tr.range.start
  /\ Len(tr.promptLines.following) = tr.n - tr.range.end

\* ------------------------------------------------------------------------
\* C38 soft break
\* ------------------------------------------------------------------------

RECURSIVE JoinedChars(_, _)
\* length of the texts of the cues `group` of `cues` joined with one space
JoinedChars(cues, group) ==
  IF group = <<>> THEN 0
  ELSE cues[Head(group)].text.chars
       + (IF Tail(group) = <<>> THEN 0
          ELSE 1 + JoinedChars(cues, Tail(group)))

RECURSIVE JoinedWords(_, _)
\* number of words of the texts of the cues `group` of `cues`
JoinedWords(cues, group) ==
  IF group = <<>> THEN 0
  ELSE cues[Head(group)].text.words + JoinedWords(cues, Tail(group))

\* the condition of the soft break for a paragraph made of the cues `group`,
\* the last of which has just been taken into it
SoftBreakDue(s, group) ==
  LET cues == s.cues
      cue  == cues[group[Len(group)]]
      o    == s.opts
  IN /\ cue.endTime - cues[group[1]].startTime >= o.minDurationMs
     /\ \/ cue.text.punct
        \/ o.limits.maxChars > 0
           /\ JoinedChars(cues, group) >= o.limits.maxChars
        \/ o.limits.maxWords > 0
           /\ JoinedWords(cues, group) >= o.limits.maxWords

\* the step closed the paragraph `group` and emitted it: it is the last
\* segment of merged, from the start of its first cue to the end of its
\* last, and no paragraph is open, so that the next non-empty cue opens one
ClosedAndEmitted(group) ==
  /\ Len(seg'.merged) = Len(seg.merged) + 1
  /\ seg'.merged[Len(seg'.merged)].text = group
  /\ seg'.merged[Len(seg'.merged)].startTime = seg.cues[group[1]].startTime
  /\ seg'.merged[Len(seg'.merged)].endTime
       = seg.cues[group[Len(group)]].endTime
  /\ seg'.currentGroup = <<>>
  /\ seg'.groupStartTime = NullInt

\* the step took a non-empty cue into a paragraph
TookCue ==
  /\ seg.phase = "loop"
  /\ seg'.phase = "loop"
  /\ seg.i <= Len(seg.cues)
  /\ seg'.i = seg.i + 1
  /\ ~seg.cues[seg.i].text.empty

\* the paragraph the cue of the step was taken into, with the cue in it
\* (the cue alone when it opened the paragraph)
TakenGroup ==
  IF seg'.currentGroup # <<>> THEN seg'.currentGroup
  ELSE seg'.merged[Len(seg'.merged)].text

RECURSIVE NonEmptyFrom(_, _)
\* the non-empty cues of `cues` from position k on, in input order
NonEmptyFrom(cues, k) ==
  IF k > Len(cues) THEN <<>>
  ELSE (IF cues[k].text.empty THEN <<>> ELSE <<k>>)
       \o NonEmptyFrom(cues, k + 1)

RECURSIVE TextsFrom(_, _)
\* the cues whose texts make the segments of `merged` from position j on,
\* in the order of the output
TextsFrom(merged, j) ==
  IF j > Len(merged) THEN <<>>
  ELSE merged[j].text \o TextsFrom(merged, j + 1)

====
